---- MODULE Spec2Model ----
(***************************************************************************)
(* State-machine model of nvidia-video-codec-rs: the decode coordinator    *)
(* (src/src/cuvid/decoder.rs, src/src/cuvid/gpu_frame.rs) and the encode   *)
(* coordinator (src/src/cuvid/encoder.rs).                                 *)
(*                                                                         *)
(* Threads of the decoder model:                                           *)
(*   - the callback thread: the thread inside cuvidParseVideoData, on      *)
(*     which the engine runs sequence_cb, picture_decode_cb and            *)
(*     picture_display_cb one after the other;                             *)
(*   - the consumer thread: FramesIter::next / map_frame;                  *)
(*   - GpuFrame drops, which may run on any thread at any time;            *)
(*   - Drop for Decoder, which needs exclusive ownership and so runs only  *)
(*     while no callback and no FramesIter call is in progress.            *)
(***************************************************************************)
EXTENDS Integers, Sequences, FiniteSets, TLC

(***************************************************************************)
(* Bounds of the model.                                                    *)
(***************************************************************************)
\* non-null display-callback invocations in one run
MaxDisplays == 2
\* the same, in the runs that vary the sequence callback's inputs
SeqMaxDisplays == 1
\* the same, in the runs that let the output-surface bound change
GateMaxDisplays == 4
\* permits of the encoder's pool (Encoder::create's surfaces)
Surfaces == 2
\* queue_gpu_frame calls in one run
MaxSubmits == 4
\* capacity of a ResourcePool used on its own, and the threads that use it
PoolCapacity == 2
PoolThreads == 3
\* decoder handles the engine hands out in one run
MaxHandles == 2
\* create calls made one after the other
MaxCreates == 2

(***************************************************************************)
(* Program constants.                                                      *)
(***************************************************************************)
ADDITIONAL_DECODE_SURFACES == 3
\* std::ptr::null_mut()
NULL == 0
\* the default of ulNumOutputSurfaces
DefaultOutputSurfaces == 3

\* capacity of the in-use bitmask (AtomicU64)
MaskBits == 64

\* Option<T>: None is the empty tuple, Some(n) the one-element tuple.
None == << >>
Some(n) == << n >>
unwrap_or(o, d) == IF o = None THEN d ELSE o[1]

Max(a, b) == IF a >= b THEN a ELSE b

(***************************************************************************)
(* Inputs of the sequence callback: the CUVIDEOFORMAT the parser reports   *)
(* and the CUVIDDECODECAPS the capability query answers.                   *)
(***************************************************************************)
MkFmt(b, c, w, h, m) ==
  [bit_depth_luma_minus8 |-> b, chroma_format |-> c, coded_width |-> w,
   coded_height |-> h, min_num_decode_surfaces |-> m]

\* a base format, and one that differs from it in resolution only, in bit
\* depth only, in chroma format only
Formats ==
  { MkFmt(0, "YUV420", 32, 32, 0),
    MkFmt(0, "YUV420", 64, 32, 0),
    MkFmt(2, "YUV420", 32, 32, 0),
    MkFmt(0, "YUV444", 32, 32, 0) }

\* the base format and a bit-depth change
PipeFormats ==
  { MkFmt(0, "YUV420", 32, 32, 0),
    MkFmt(2, "YUV420", 32, 32, 0) }

\* formats whose reported minimum of decode surfaces differs
GateFormats ==
  { MkFmt(0, "YUV420", 32, 32, 1),
    MkFmt(2, "YUV420", 32, 32, 0) }

MkCaps(s, mw, mh, mb, nv12) ==
  [bIsSupported |-> s, nMaxWidth |-> mw, nMaxHeight |-> mh,
   nMaxMBCount |-> mb, nv12_in_mask |-> nv12]

GoodCaps == MkCaps(TRUE, 64, 64, 16, TRUE)

CapsChoices ==
  { GoodCaps,
    MkCaps(FALSE, 64, 64, 16, TRUE),
    MkCaps(TRUE, 32, 64, 16, TRUE),
    MkCaps(TRUE, 64, 16, 16, TRUE),
    MkCaps(TRUE, 64, 64, 4, TRUE),
    MkCaps(TRUE, 64, 64, 16, FALSE) }

\* what the engine answers during one sequence callback: the capabilities,
\* which call of the capability query fails if any ("ok": none), and whether
\* the context push before the decoder is set up succeeds
MkEnv(caps, capsCall, pushOk) ==
  [caps |-> caps, capsCall |-> capsCall, pushOk |-> pushOk]

AllOk == MkEnv(GoodCaps, "ok", TRUE)

SeqEnvs ==
  { MkEnv(c, "ok", TRUE) : c \in CapsChoices }
    \cup { MkEnv(GoodCaps, o, TRUE) : o \in {"push_fail", "caps_fail", "pop_fail"} }
    \cup { MkEnv(GoodCaps, "ok", FALSE) }

\* what Decoder::create was given
RequestedOutputSurfaces == {Some(2)}
RequestedDecodeSurfaces == {None}
RequestedSizes == {<<0, 0>>}

VARIABLES
  \* ---- Inner (decoder.rs) ----
  decoder,                    \* CUvideodecoder: NULL or a handle 1, 2, ...
  frame_in_use,               \* AtomicU64 bitmask, as the set of set bit indices
  frames_in_flight,           \* the usize behind the mutex
  current_output_surfaces,
  bit_depth_minus8,
  chroma_format,
  coded_size,
  sender,                     \* TRUE while Inner.sender is Some
  channel,                    \* the flume queue of PreparedFrame
  requested_output_surfaces,
  requested_decode_surfaces,
  requested_size,
  \* ---- the engine ----
  created,                    \* handles cuvidCreateDecoder has returned so far
  active_fmt,                 \* the format the live decoder was created with
  destroyed,                  \* handles given to cuvidDestroyDecoder
  eng_decoded,                \* slots decoded and not yet displayed
  eng_slots,                  \* decode surfaces the parser cycles through
  seq_done,                   \* a sequence callback has returned
  displays,                   \* non-null display callbacks so far
  eng_mapped,                 \* GpuFrames whose surface is mapped and not unmapped
  \* ---- callback thread ----
  pc_cb,
  cb_local,
  cb_ret,                     \* what the last callback returned
  \* ---- consumer thread ----
  pc_cons,
  cons_frame,                 \* the PreparedFrame map_frame is working on
  held,                       \* live GpuFrames
  returned,                   \* timestamps of the frames next() returned, in order
  lost,                       \* timestamps of displayed frames that were discarded
  pull_ret,                   \* the last result of a pull that found the channel empty
  \* ---- Drop for Decoder ----
  pc_drop,
  \* ---- Inner (encoder.rs) ----
  enc_pool,                   \* ResourcePool: the VecDeque of free permits
  enc_pending,                \* Inner.pending: MappedInputResources
  enc_chan,                   \* the bounded retrieval channel
  enc_sender,                 \* TRUE while Inner.sender is Some
  \* ---- the thread that owns the Encoder ----
  enc_pc,
  enc_permit,                 \* the permit queue_gpu_frame holds
  enc_ret,                    \* what the last call on the Encoder returned
  enc_log,                    \* each queue_gpu_frame that took a permit: permit, result
  \* ---- the thread that owns the encoder's FramesIter ----
  it_pc,
  it_resource,                \* the MappedInputResource next() holds
  enc_yielded,                \* resources next() has received, in order
  it_ret,                     \* what the last next() returned: "Some" or "None"
  enc_alive,                  \* FALSE once the Encoder has been dropped
  \* ---- a ResourcePool and the threads that call get and put on it ----
  pool_q,                     \* the VecDeque behind the mutex
  pool_pc,                    \* per thread: "idle", "get" (inside get), "hold"
  pool_hold,                  \* per thread: the permit it holds
  pool_last_put,              \* the last put: permit and thread
  \* ---- Decoder::create and Encoder::create ----
  cr_call,                    \* how many create calls were made
  cr_made,                    \* the handles the last create call created
  cr_live,                    \* handles created and not destroyed
  cr_last,                    \* the last create call: what, its inputs, its result
  \* ---- the CUDA context stack of each thread ----
  ctx_depth,                  \* per thread: contexts on its stack
  ctx_calls,                  \* how many handler calls were made
  ctx_last,                   \* the last handler call: which, its failure, depths
  \* ---- the condition variable of frames_in_flight ----
  cvar_waiting,               \* the threads blocked in cvar.wait
  cvar_last,                  \* the last notify_one that found a thread waiting
  \* ---- the operations taken one at a time ----
  bit_op,                     \* the last operation on the bitmask taken alone
  map_meta,                   \* the decode status of the last frame mapped
  slot_decoder,               \* pairs << slot, decoder that decoded into it last >>
  enc_mapped,                 \* the MappedInputResources registered and mapped
  enc_engine                  \* the session, the bitstream buffers, stale calls

fmt_vars == << bit_depth_minus8, chroma_format, coded_size >>
chan_vars == << sender, channel >>
cfg_vars ==
  << requested_output_surfaces, requested_decode_surfaces, requested_size >>
eng_vars ==
  << created, destroyed, active_fmt, eng_decoded, eng_slots, seq_done,
     displays, eng_mapped >>
cons_vars == << pc_cons, cons_frame, held, returned, lost, pull_ret >>

dec_vars ==
  << decoder, frame_in_use, frames_in_flight, current_output_surfaces,
     fmt_vars, chan_vars, cfg_vars, eng_vars, pc_cb, cb_local, cb_ret,
     cons_vars, pc_drop >>

enc_vars ==
  << enc_pool, enc_pending, enc_chan, enc_sender, enc_pc, enc_permit, enc_ret,
     enc_log, it_pc, it_resource, enc_yielded, it_ret, enc_alive >>

pool_vars == << pool_q, pool_pc, pool_hold, pool_last_put >>

create_vars == << cr_call, cr_made, cr_live, cr_last >>

ctx_vars == << ctx_depth, ctx_calls, ctx_last >>

cvar_vars == << cvar_waiting, cvar_last >>

aux_vars == << bit_op, map_meta, slot_decoder, enc_mapped, enc_engine >>

vars ==
  << dec_vars, enc_vars, pool_vars, create_vars, ctx_vars, cvar_vars,
     aux_vars >>

\* the pulls that find the channel empty: next_timeout with the channel
\* open, next_timeout with the channel closed, next() with the channel closed
PullCases == {"open", "closed", "end"}

NoLocal == [kind |-> "none"]
NoFrame == [index |-> -1, timestamp |-> -1]
NoRet == -1
NoFmt == [bit_depth_luma_minus8 |-> -1, chroma_format |-> "none",
          coded_width |-> 0, coded_height |-> 0, min_num_decode_surfaces |-> 0]

(***************************************************************************)
(* Decoder::create: the state after construction.                          *)
(***************************************************************************)
DecInitWith(output_surfaces, decode_surfaces) ==
  /\ decoder = NULL
  /\ frame_in_use = {}
  /\ frames_in_flight = 0
  /\ current_output_surfaces = 0
  /\ bit_depth_minus8 = 0
  /\ chroma_format = "Monochrome"
  /\ coded_size = <<0, 0>>
  /\ sender = TRUE
  /\ channel = << >>
  /\ requested_output_surfaces \in output_surfaces
  /\ requested_decode_surfaces \in decode_surfaces
  /\ requested_size \in RequestedSizes
  /\ created = 0
  /\ destroyed = {}
  /\ active_fmt = NoFmt
  /\ eng_decoded = {}
  /\ eng_slots = unwrap_or(requested_decode_surfaces, 1)
  /\ seq_done = FALSE
  /\ displays = 0
  /\ eng_mapped = {}
  /\ pc_cb = "idle"
  /\ cb_local = NoLocal
  /\ cb_ret = NoRet
  /\ pc_cons = "idle"
  /\ cons_frame = NoFrame
  /\ held = {}
  /\ returned = << >>
  /\ pull_ret = [c \in PullCases |-> "none"]
  /\ lost = {}
  /\ pc_drop = "alive"

DecInit(output_surfaces) ==
  DecInitWith(output_surfaces, RequestedDecodeSurfaces)

NoPermit == -1
NoResource == [permit |-> NoPermit, n |-> 0]

\* a pool that starts one permit short
OneShort(size) == [i \in 1 .. size - 1 |-> i - 1]

\* ResourcePool::with_capacity(size): (0..size).collect()
with_capacity(size) == [i \in 1 .. size |-> i - 1]

(***************************************************************************)
(* Encoder::create: the state after construction.                          *)
(***************************************************************************)
EncInit ==
  /\ enc_pool = with_capacity(Surfaces)
  /\ enc_pending = << >>
  /\ enc_chan = << >>
  /\ enc_sender = TRUE
  /\ enc_pc = "idle"
  /\ enc_permit = NoPermit
  /\ enc_ret = "none"
  /\ enc_log = << >>
  /\ it_pc = "idle"
  /\ it_resource = NoResource
  /\ enc_yielded = << >>
  /\ it_ret = "none"
  /\ enc_alive = TRUE

Threads == 1 .. PoolThreads

\* a pool fresh from ResourcePool::with_capacity, no thread inside a call
PoolInit ==
  /\ pool_q = with_capacity(PoolCapacity)
  /\ pool_pc = [t \in Threads |-> "idle"]
  /\ pool_hold = [t \in Threads |-> NoPermit]
  /\ pool_last_put = [permit |-> NoPermit, by |-> 0]

\* no create call was made yet
CreateInit ==
  /\ cr_call = 0
  /\ cr_made = {}
  /\ cr_live = {}
  /\ cr_last = [what |-> "none", given |-> FALSE, fail_at |-> 0, ret |-> "none"]

\* the threads that push and pop: the one that feeds the parser and so runs
\* the callbacks, and the one that pulls frames
CtxThreads == {"parser", "consumer"}

\* no handler was called yet; each thread has the given number of contexts
\* current
CtxInitWith(depths) ==
  /\ ctx_depth \in [CtxThreads -> depths]
  /\ ctx_calls = 0
  /\ ctx_last = [handler |-> "none", fail_at |-> 0, thread |-> "parser",
                 before |-> 0, after |-> 0]

CtxInit == CtxInitWith({0})

\* no operation was taken alone yet
AuxInit ==
  /\ bit_op = "none"
  /\ map_meta = [status |-> "none", timestamp |-> 0,
                 has_concealed_error |-> None]
  /\ slot_decoder = {}
  /\ enc_mapped = {}
  /\ enc_engine = [session |-> TRUE, bitstreams |-> TRUE, stale |-> {}]

\* no thread waits on the condition variable
CvarInit ==
  /\ cvar_waiting = {}
  /\ cvar_last = [by |-> "none", before |-> {}, woken |-> {}]

Init ==
  /\ DecInit(RequestedOutputSurfaces)
  /\ EncInit
  /\ PoolInit
  /\ CreateInit
  /\ CtxInit /\ CvarInit /\ AuxInit

(***************************************************************************)
(* Frame-in-use tracker.                                                   *)
(***************************************************************************)
\* a test that looks at the whole mask
AnyInUse(mask, idx) == mask # {}

\* the bits of the AtomicU64
AllBits == 0 .. (MaskBits - 1)

\* 1 << idx on a u64
bit(idx) == {idx % MaskBits}

\* a complement that keeps no bit
KeepsNothing(v) == {}

\* !v on a u64
bit_not(v) == AllBits \ v

\* f & (1 << idx) != 0
is_frame_in_use(mask, idx) == (mask \cap bit(idx)) # {}

\* a release that clears the whole mask
ClearsAll(mask, idx, status) == IF status THEN mask \cup {idx} ELSE {}

\* fetch_or(1 << idx), fetch_and(!(1 << idx))
set_frame_status(mask, idx, status) ==
  IF status THEN mask \cup bit(idx) ELSE mask \cap bit_not(bit(idx))

(***************************************************************************)
(* sequence_cb, first part: everything up to the second context push.      *)
(***************************************************************************)
min_surfaces_of(fmt) ==
  (fmt.min_num_decode_surfaces + ADDITIONAL_DECODE_SURFACES) % 256

\* the capability checks that return min_surfaces early
\* a callback that takes every output-format mask
AnyOutputFormat(caps) == TRUE

\* decode_caps.nOutputFormatMask & (1 << NV12) != 0
nv12_supported(caps) == caps.nv12_in_mask

CapsReject(fmt, caps) ==
  \/ ~caps.bIsSupported
  \/ fmt.coded_width > caps.nMaxWidth
  \/ fmt.coded_height > caps.nMaxHeight
  \/ (fmt.coded_width \div 16) * (fmt.coded_height \div 16) > caps.nMaxMBCount

\* let mut force_recreate = true; the two ifs only ever set it to true again
force_recreate(dec, bit_depth_differs, chroma_differs) ==
  LET r0 == TRUE
      r1 == IF dec # NULL /\ bit_depth_differs THEN TRUE ELSE r0
      r2 == IF dec # NULL /\ chroma_differs THEN TRUE ELSE r1
  IN  r2

decode_surfaces_of(fmt, req_decode) ==
  Max(min_surfaces_of(fmt), unwrap_or(req_decode, 1))

num_output_surfaces_of(req_output, decode_surfaces) ==
  IF req_output = None THEN DefaultOutputSurfaces
  ELSE IF req_output[1] = 0 THEN decode_surfaces ELSE req_output[1]

\* the parser sizes its ring of decode surfaces from a return value above 1
EngSlotsAfter(ret) == IF ret > 1 THEN ret ELSE eng_slots

SeqBegin(fmt, env, maxHandles) ==
  /\ pc_drop = "alive"
  /\ pc_cb = "idle"
  /\ created < maxHandles
  /\ LET min_surfaces == min_surfaces_of(fmt)
         bit_depth_differs == bit_depth_minus8 # fmt.bit_depth_luma_minus8
         chroma_differs == chroma_format # fmt.chroma_format
         recreate == force_recreate(decoder, bit_depth_differs, chroma_differs)
         res_change == ~(fmt.coded_width = coded_size[1]
                           /\ fmt.coded_height = coded_size[2])
         decode_surfaces == decode_surfaces_of(fmt, requested_decode_surfaces)
         num_output ==
           num_output_surfaces_of(requested_output_surfaces, decode_surfaces)
         use_requested == requested_size[1] > 0 /\ requested_size[2] > 0
         loc(reached) ==
           [kind |-> "seq",
            fmt |-> fmt,
            min_surfaces |-> min_surfaces,
            decode_surfaces |-> decode_surfaces,
            res_change |-> res_change,
            \* the decoder on entry, and whether fmt differs in bit depth
            \* or chroma from the format that decoder was created with
            entry_decoder |-> decoder,
            fmt_differs |->
              (active_fmt.bit_depth_luma_minus8 # fmt.bit_depth_luma_minus8
                 \/ active_fmt.chroma_format # fmt.chroma_format),
            \* the same comparison against the fields the callback keeps
            self_differs |-> (bit_depth_differs \/ chroma_differs),
            reached |-> reached,
            zero_seen |-> FALSE,
            \* what cuvidGetDecoderCaps answered: one of the three
            \* rejections, and whether NV12 is in the output-format mask
            caps_rejected |-> (env.capsCall = "ok" /\ CapsReject(fmt, env.caps)),
            nv12_in_mask |-> env.caps.nv12_in_mask]
     IN
     IF env.capsCall # "ok" \/ CapsReject(fmt, env.caps)
     THEN \* early return of min_surfaces: nothing was written yet
          /\ cb_ret' = min_surfaces
          /\ pc_cb' = "ret"
          /\ cb_local' = loc("caps")
          /\ UNCHANGED << fmt_vars, current_output_surfaces >>
     ELSE
     /\ chroma_format' = fmt.chroma_format
     /\ bit_depth_minus8' = fmt.bit_depth_luma_minus8
     /\ IF ~nv12_supported(env.caps)
        THEN \* NV12 is not in nOutputFormatMask: return 0
             /\ cb_ret' = 0
             /\ pc_cb' = "ret"
             /\ cb_local' = loc("nv12")
             /\ UNCHANGED << current_output_surfaces, coded_size >>
        ELSE
        /\ current_output_surfaces' = num_output
        /\ coded_size' = IF use_requested THEN requested_size
                         ELSE <<fmt.coded_width, fmt.coded_height>>
        /\ IF ~env.pushOk
           THEN /\ cb_ret' = min_surfaces
                /\ pc_cb' = "ret"
                /\ cb_local' = loc("push")
           ELSE /\ cb_ret' = NoRet
                /\ pc_cb' = IF recreate THEN "seq_wait" ELSE "seq_create"
                /\ cb_local' = loc("setup")
  /\ UNCHANGED << decoder, frame_in_use, frames_in_flight, chan_vars, cfg_vars,
                  eng_vars, cons_vars, pc_drop >>
  /\ UNCHANGED << enc_vars, pool_vars, create_vars, ctx_vars,
                  cvar_vars, aux_vars >>

\* a recreate path that does not look at the count
WaitSkipped(count) == TRUE

\* while *count > 0 { count = cvar.wait(count) } has ended
WaitDone(count) == ~(count > 0)

\* while *count > 0 { count = cvar.wait(count) }: the lock is released as the
\* block ends, before cuvidDestroyDecoder is called
SeqWait ==
  /\ pc_cb = "seq_wait"
  /\ "callback" \notin cvar_waiting
  /\ WaitDone(frames_in_flight)
  /\ pc_cb' = "seq_destroy"
  /\ cb_local' = [cb_local EXCEPT !.zero_seen = (frames_in_flight = 0)]
  /\ UNCHANGED << decoder, frame_in_use, frames_in_flight,
                  current_output_surfaces, fmt_vars, chan_vars, cfg_vars,
                  eng_vars, cb_ret, cons_vars, pc_drop >>
  /\ UNCHANGED << enc_vars, pool_vars, create_vars, ctx_vars,
                  cvar_vars, aux_vars >>

\* cuvidDestroyDecoder frees the decoder's surfaces: nothing stays mapped
\* from the destroyed handle
AfterDestroy(mapped, dec) == {m \in mapped : m.decoder # dec}

\* cuvidDestroyDecoder(self.decoder); self.decoder = null
SeqDestroy ==
  /\ pc_cb = "seq_destroy"
  /\ destroyed' = IF decoder # NULL THEN destroyed \cup {decoder} ELSE destroyed
  /\ decoder' = NULL
  /\ eng_mapped' = AfterDestroy(eng_mapped, decoder)
  /\ pc_cb' = "seq_create"
  /\ UNCHANGED << frame_in_use, frames_in_flight, current_output_surfaces,
                  fmt_vars, chan_vars, cfg_vars, created, active_fmt,
                  eng_decoded, eng_slots, seq_done, displays, cb_local,
                  cb_ret, cons_vars, pc_drop >>
  /\ UNCHANGED << enc_vars, pool_vars, create_vars, ctx_vars,
                  cvar_vars, aux_vars >>

\* create or reconfigure, pop the context, return
SeqCreate(engineOk, popOk) ==
  /\ pc_cb = "seq_create"
  /\ LET ret == IF engineOk /\ popOk THEN cb_local.decode_surfaces
                ELSE cb_local.min_surfaces
     IN  cb_ret' = ret
  /\ cb_local' = [cb_local EXCEPT
                     !.reached =
                        IF decoder # NULL THEN "reconfigure"
                        ELSE IF engineOk THEN "created" ELSE "create_failed"]
  /\ IF decoder = NULL
     THEN IF engineOk
          THEN /\ decoder' = created + 1
               /\ created' = created + 1
               /\ active_fmt' = cb_local.fmt
          ELSE UNCHANGED << decoder, created, active_fmt >>
     ELSE IF cb_local.res_change /\ engineOk
          THEN /\ active_fmt' = [active_fmt EXCEPT
                    !.coded_width = cb_local.fmt.coded_width,
                    !.coded_height = cb_local.fmt.coded_height]
               /\ UNCHANGED << decoder, created >>
          ELSE UNCHANGED << decoder, created, active_fmt >>
  /\ pc_cb' = "ret"
  /\ UNCHANGED << frame_in_use, frames_in_flight, current_output_surfaces,
                  fmt_vars, chan_vars, cfg_vars, destroyed, eng_decoded,
                  eng_slots, seq_done, displays, eng_mapped, cons_vars, pc_drop >>
  /\ UNCHANGED << enc_vars, pool_vars, create_vars, ctx_vars,
                  cvar_vars, aux_vars >>

(***************************************************************************)
(* picture_decode_cb.  The engine asks for a slot of its ring in which it  *)
(* holds no undisplayed picture.                                           *)
(***************************************************************************)
\* a callback that takes every handle for a live decoder
NotNull(dec) == FALSE

\* self.decoder.is_null()
decoder_is_null(dec) == dec = NULL

DecBegin(pic_idx) ==
  /\ pc_drop = "alive"
  /\ pc_cb = "idle"
  /\ seq_done
  /\ pic_idx < MaskBits
  /\ pic_idx \notin eng_decoded
  /\ IF decoder_is_null(decoder)
     THEN \* "picture_decode_cb called but decoder is not initialized"
          /\ cb_ret' = 0
          /\ pc_cb' = "ret"
          /\ cb_local' = [kind |-> "dec", pic_idx |-> pic_idx,
                          null_at |-> "entry"]
     ELSE /\ pc_cb' = "dec_wait"
          /\ cb_local' = [kind |-> "dec", pic_idx |-> pic_idx,
                          null_at |-> "none"]
          /\ cb_ret' = NoRet
  /\ UNCHANGED << decoder, frame_in_use, frames_in_flight,
                  current_output_surfaces, fmt_vars, chan_vars, cfg_vars,
                  eng_vars, cons_vars, pc_drop >>
  /\ UNCHANGED << enc_vars, pool_vars, create_vars, ctx_vars,
                  cvar_vars, aux_vars >>

\* a decode callback that does not poll
PollSkipped(mask, idx) == TRUE

\* the polling loop has ended
PollDone(mask, idx) == ~is_frame_in_use(mask, idx)

\* the polling loop ends once the slot's bit is clear; then the slot is
\* marked and the decode is submitted
DecSubmitStep(engineOk) ==
  /\ pc_cb = "dec_wait"
  /\ PollDone(frame_in_use, cb_local.pic_idx)
  /\ IF decoder_is_null(decoder)
     THEN \* "decoder was dropped while waiting for frame in use"
          /\ cb_ret' = 0
          /\ cb_local' = [cb_local EXCEPT !.null_at = "after_wait"]
          /\ UNCHANGED << frame_in_use, eng_decoded >>
     ELSE /\ frame_in_use' = set_frame_status(frame_in_use, cb_local.pic_idx, TRUE)
          /\ eng_decoded' = IF engineOk THEN eng_decoded \cup {cb_local.pic_idx}
                            ELSE eng_decoded
          /\ cb_ret' = IF engineOk THEN 1 ELSE 0
          /\ UNCHANGED cb_local
  /\ pc_cb' = "ret"
  /\ UNCHANGED << decoder, frames_in_flight, current_output_surfaces, fmt_vars,
                  chan_vars, cfg_vars, created, destroyed, active_fmt,
                  eng_slots, seq_done, displays, eng_mapped, cons_vars, pc_drop >>
  /\ UNCHANGED << enc_vars, pool_vars, create_vars, ctx_vars, cvar_vars >>

\* picture_decode_cb from the end of the polling loop on
DecSubmit(engineOk) ==
  /\ DecSubmitStep(engineOk)
  /\ UNCHANGED aux_vars

(***************************************************************************)
(* picture_display_cb.                                                     *)
(***************************************************************************)
\* display_info.is_null(): drop(self.sender.take())
DisplayEos ==
  /\ pc_drop = "alive"
  /\ pc_cb = "idle"
  /\ sender' = FALSE
  /\ cb_ret' = 1
  /\ pc_cb' = "ret"
  /\ cb_local' = [kind |-> "eos"]
  /\ UNCHANGED << decoder, frame_in_use, frames_in_flight,
                  current_output_surfaces, fmt_vars, channel, cfg_vars,
                  eng_vars, cons_vars, pc_drop >>
  /\ UNCHANGED << enc_vars, pool_vars, create_vars, ctx_vars,
                  cvar_vars, aux_vars >>

PreparedFrame(index, timestamp) == [index |-> index, timestamp |-> timestamp]

\* flume: send appends, recv takes the oldest
Send(ch, frame) == Append(ch, frame)

\* a display callback that sends whether or not the sender is there
SendsAnyway(ch, snd, frame) == Send(ch, frame)

\* picture_display_cb on a non-null display_info: return 1 at once when the
\* sender is None, send the PreparedFrame otherwise
DisplaySend(ch, snd, frame) == IF snd THEN Send(ch, frame) ELSE ch

Display(idx, maxDisplays) ==
  /\ pc_drop = "alive"
  /\ pc_cb = "idle"
  /\ idx \in eng_decoded
  /\ displays < maxDisplays
  /\ displays' = displays + 1
  /\ eng_decoded' = eng_decoded \ {idx}
  /\ channel' = DisplaySend(channel, sender, PreparedFrame(idx, displays + 1))
  /\ lost' = IF sender THEN lost ELSE lost \cup {displays + 1}
  /\ cb_ret' = 1
  /\ pc_cb' = "ret"
  /\ cb_local' = [kind |-> "display", index |-> idx, timestamp |-> displays + 1,
                   sent |-> sender]
  /\ UNCHANGED << decoder, frame_in_use, frames_in_flight,
                  current_output_surfaces, fmt_vars, sender, cfg_vars, created,
                  destroyed, active_fmt, eng_slots, seq_done, eng_mapped,
                  pc_cons, cons_frame, held, returned, pull_ret, pc_drop >>
  /\ UNCHANGED << enc_vars, pool_vars, create_vars, ctx_vars,
                  cvar_vars, aux_vars >>

(***************************************************************************)
(* FramesIter::next and map_frame (the consumer thread).                   *)
(***************************************************************************)
\* a channel that hands out the newest frame
RecvNewest(ch) == ch[Len(ch)]

Recv(ch) == Head(ch)
AfterRecv(ch) == Tail(ch)

\* receiver.recv(), then cuCtxPushCurrent
ConsRecv(pushOk) ==
  /\ pc_drop = "alive"
  /\ pc_cons = "idle"
  /\ channel # << >>
  /\ channel' = AfterRecv(channel)
  /\ IF pushOk
     THEN /\ pc_cons' = "gate"
          /\ cons_frame' = Recv(channel)
          /\ UNCHANGED lost
     ELSE \* "Failed to push current context": return None
          /\ lost' = lost \cup {Recv(channel).timestamp}
          /\ UNCHANGED << pc_cons, cons_frame >>
  /\ UNCHANGED << decoder, frame_in_use, frames_in_flight,
                  current_output_surfaces, fmt_vars, sender, cfg_vars,
                  eng_vars, pc_cb, cb_local, cb_ret, held, returned, pull_ret,
                  pc_drop >>
  /\ UNCHANGED << enc_vars, pool_vars, create_vars, ctx_vars,
                  cvar_vars, aux_vars >>

\* a notify that wakes every thread that waits
notify_all(waiting) == {waiting}

\* Condvar::notify_one: the sets of threads it may wake, one thread when
\* any waits
notify_one(waiting) ==
  IF waiting = {} THEN {{}} ELSE {{t} : t \in waiting}

\* cvar.notify_one() by a release or an acquire
Notify(by) ==
  \E woken \in notify_one(cvar_waiting) :
     /\ cvar_waiting' = cvar_waiting \ woken
     /\ cvar_last' = IF cvar_waiting = {} THEN cvar_last
                     ELSE [by |-> by, before |-> cvar_waiting, woken |-> woken]

\* while *count >= current_output_surfaces { wait }; *count += 1; notify_one
ConsGate ==
  /\ pc_cons = "gate"
  /\ "consumer" \notin cvar_waiting
  /\ frames_in_flight < current_output_surfaces
  /\ frames_in_flight' = frames_in_flight + 1
  /\ Notify("acquire")
  /\ pc_cons' = "map"
  /\ UNCHANGED << decoder, frame_in_use, current_output_surfaces, fmt_vars,
                  chan_vars, cfg_vars, eng_vars, pc_cb, cb_local, cb_ret,
                  cons_frame, held, returned, lost, pull_ret, pc_drop >>
  /\ UNCHANGED << enc_vars, pool_vars, create_vars, ctx_vars, aux_vars >>

GpuFrame(frame, dec) ==
  [idx |-> frame.index, timestamp |-> frame.timestamp, decoder |-> dec]

\* what map_frame does to the gate when cuvidMapVideoFrame64 fails: it
\* returns None with the count as it is
MapFailedCount(count) == count

\* cuvidMapVideoFrame64, decode status, pop, build the GpuFrame
ConsMapStep(mapOk) ==
  /\ pc_cons = "map"
  /\ IF mapOk
     THEN /\ held' = held \cup {GpuFrame(cons_frame, decoder)}
          /\ eng_mapped' = eng_mapped \cup {GpuFrame(cons_frame, decoder)}
          /\ returned' = Append(returned, cons_frame.timestamp)
          /\ UNCHANGED << frames_in_flight, lost >>
     ELSE /\ frames_in_flight' = MapFailedCount(frames_in_flight)
          /\ lost' = lost \cup {cons_frame.timestamp}
          /\ UNCHANGED << held, returned, eng_mapped >>
  /\ pc_cons' = "idle"
  /\ cons_frame' = NoFrame
  /\ UNCHANGED << decoder, frame_in_use, current_output_surfaces, fmt_vars,
                  chan_vars, cfg_vars, created, destroyed, active_fmt,
                  eng_decoded, eng_slots, seq_done, displays, pc_cb, cb_local,
                  cb_ret, pull_ret, pc_drop >>
  /\ UNCHANGED << enc_vars, pool_vars, create_vars, ctx_vars, cvar_vars >>

\* map_frame from the gate on
ConsMap(mapOk) ==
  /\ ConsMapStep(mapOk)
  /\ UNCHANGED aux_vars

\* flume's recv_timeout: an entry, or Timeout while a sender lives, or
\* Disconnected once the channel is empty and the sender is gone
recv_timeout(ch, snd) ==
  IF ch # << >> THEN "Ok"
  ELSE IF snd THEN "Err(Timeout)" ELSE "Err(Disconnected)"

\* .map_err(|_| ())
map_err_unit(r) == IF r = "Ok" THEN "Ok" ELSE "Err(())"

\* .ok()
ok_of(r) == IF r = "Ok" THEN "Some" ELSE "None"

\* FramesIter::next_timeout on an empty channel: the error of recv_timeout
\* is mapped to () and returned with `?`
NextTimeout ==
  /\ pc_drop = "alive"
  /\ pc_cons = "idle"
  /\ channel = << >>
  /\ pull_ret' = [pull_ret EXCEPT ![IF sender THEN "open" ELSE "closed"] =
                                   map_err_unit(recv_timeout(channel, sender))]
  /\ UNCHANGED << decoder, frame_in_use, frames_in_flight,
                  current_output_surfaces, fmt_vars, chan_vars, cfg_vars,
                  eng_vars, pc_cb, cb_local, cb_ret, pc_cons, cons_frame,
                  held, returned, lost, pc_drop >>
  /\ UNCHANGED << enc_vars, pool_vars, create_vars, ctx_vars,
                  cvar_vars, aux_vars >>

\* Iterator::next without a frame_timeout on an empty channel whose sender is
\* gone: recv() is Err(Disconnected) and `.ok()?` returns None.  While the
\* sender lives recv() blocks.
ConsEnd ==
  /\ pc_drop = "alive"
  /\ pc_cons = "idle"
  /\ channel = << >>
  /\ ~sender
  /\ pull_ret' = [pull_ret EXCEPT !["end"] = ok_of(recv_timeout(channel, sender))]
  /\ UNCHANGED << decoder, frame_in_use, frames_in_flight,
                  current_output_surfaces, fmt_vars, chan_vars, cfg_vars,
                  eng_vars, pc_cb, cb_local, cb_ret, pc_cons, cons_frame,
                  held, returned, lost, pc_drop >>
  /\ UNCHANGED << enc_vars, pool_vars, create_vars, ctx_vars,
                  cvar_vars, aux_vars >>

(***************************************************************************)
(* Drop for GpuFrame: unmap (the result is only logged), count - 1 and     *)
(* notify_one, clear the bit.                                              *)
(* The two writes are to different words; no other thread acts on seeing   *)
(* one without the other in a way an atomic step does not allow, so the    *)
(* drop is one step.                                                       *)
(***************************************************************************)
\* the handle is one cuvidCreateDecoder returned and nobody destroyed
HandleLive(dec) == dec # NULL /\ dec \notin destroyed

\* what cuvidUnmapVideoFrame64 may answer: on a live handle what the engine
\* is allowed to (engineOks), on a null or destroyed handle anything
UnmapOutcomes(f, engineOks) ==
  IF HandleLive(f.decoder) THEN engineOks ELSE BOOLEAN

GpuFrameDrop(f, unmapOk) ==
  /\ f \in held
  /\ held' = held \ {f}
  /\ eng_mapped' = IF unmapOk THEN eng_mapped \ {f} ELSE eng_mapped
  /\ frames_in_flight' = frames_in_flight - 1
  /\ Notify("release")
  /\ frame_in_use' = set_frame_status(frame_in_use, f.idx, FALSE)
  /\ UNCHANGED << decoder, current_output_surfaces, fmt_vars, chan_vars,
                  cfg_vars, created, destroyed, active_fmt, eng_decoded,
                  eng_slots, seq_done, displays, pc_cb, cb_local, cb_ret,
                  pc_cons, cons_frame, returned, lost, pull_ret, pc_drop >>
  /\ UNCHANGED << enc_vars, pool_vars, create_vars, ctx_vars, aux_vars >>

(***************************************************************************)
(* Drop for Decoder.                                                       *)
(***************************************************************************)
DropBegin ==
  /\ pc_drop = "alive"
  /\ pc_cb = "idle"
  /\ pc_cons = "idle"
  /\ pc_drop' = "wait"
  /\ UNCHANGED << decoder, frame_in_use, frames_in_flight,
                  current_output_surfaces, fmt_vars, chan_vars, cfg_vars,
                  eng_vars, pc_cb, cb_local, cb_ret, cons_vars >>
  /\ UNCHANGED << enc_vars, pool_vars, create_vars, ctx_vars,
                  cvar_vars, aux_vars >>

\* while *count > 0 { wait }; destroy the decoder, the parser, clear the
\* mask, destroy the context lock
DropFinish ==
  /\ pc_drop = "wait"
  /\ WaitDone(frames_in_flight)
  /\ destroyed' = IF decoder # NULL THEN destroyed \cup {decoder} ELSE destroyed
  /\ decoder' = NULL
  /\ eng_mapped' = AfterDestroy(eng_mapped, decoder)
  /\ frame_in_use' = {}
  /\ pc_drop' = "done"
  /\ UNCHANGED << frames_in_flight, current_output_surfaces, fmt_vars,
                  chan_vars, cfg_vars, created, active_fmt, eng_decoded,
                  eng_slots, seq_done, displays, pc_cb, cb_local, cb_ret,
                  cons_vars >>
  /\ UNCHANGED << enc_vars, pool_vars, create_vars, ctx_vars,
                  cvar_vars, aux_vars >>

\* the callback returns into the parser, which sizes its ring of decode
\* surfaces from a sequence callback's return value
CbReturn ==
  /\ pc_cb = "ret"
  /\ pc_cb' = "idle"
  /\ cb_local' = NoLocal
  /\ cb_ret' = NoRet
  /\ IF cb_local.kind = "seq"
     THEN /\ eng_slots' = EngSlotsAfter(cb_ret)
          /\ seq_done' = TRUE
     ELSE UNCHANGED << eng_slots, seq_done >>
  /\ UNCHANGED << decoder, frame_in_use, frames_in_flight,
                  current_output_surfaces, fmt_vars, chan_vars, cfg_vars,
                  created, destroyed, active_fmt, eng_decoded, displays, eng_mapped,
                  cons_vars, pc_drop >>
  /\ UNCHANGED << enc_vars, pool_vars, create_vars, ctx_vars,
                  cvar_vars, aux_vars >>

EngSlots == 0 .. (eng_slots - 1)

(***************************************************************************)
(* The encoder (encoder.rs).  A permit is the index of an input and a       *)
(* bitstream buffer; a MappedInputResource is its permit and the ordinal   *)
(* of the queue_gpu_frame call that registered it.                         *)
(***************************************************************************)

\* ResourcePool::get: pop_front once the pool is not empty
get(pool) == Head(pool)

\* a get that leaves the permit in the pool
KeepsPermit(pool) == pool

\* ResourcePool::get: the pool after pop_front
AfterGet(pool) == Tail(pool)

\* a put that forgets the permit
PutNothing(pool, permit) == pool

\* ResourcePool::put: push_back
put(pool, permit) == Append(pool, permit)

\* a flush that sends the resource of this call first
FlushCurrentFirst(pending, resource) == << resource >> \o pending

\* the Ok arm of queue_gpu_frame: pending.drain(..) sent in order, then the
\* resource of this call
FlushOrder(pending, resource) == pending \o << resource >>

MappedInputResource(permit, n) == [permit |-> permit, n |-> n]

\* results of one queue_gpu_frame after it took its permit
EncOutcomes == {"panic", "register_err", "Ok(true)", "Ok(false)", "Err"}

\* a sender check that never sees the end of the stream
NeverNone(s) == FALSE

\* self.inner.sender.is_none(): the sender is TRUE while it is Some
is_none(s) == ~s

\* queue_gpu_frame up to pool.get(): panics once the sender has been taken
EncQueueBegin ==
  /\ enc_alive
  /\ enc_pc = "idle"
  /\ Len(enc_log) < MaxSubmits
  /\ IF is_none(enc_sender)
       THEN /\ enc_ret' = "panic"
            /\ UNCHANGED << enc_pc, enc_log >>
       ELSE /\ enc_pc' = "get"
            /\ enc_ret' = "none"
            /\ UNCHANGED enc_log
  /\ UNCHANGED << enc_pool, enc_pending, enc_chan, enc_sender, enc_permit,
                  it_pc, it_resource, enc_yielded, it_ret, enc_alive >>
  /\ UNCHANGED << dec_vars, pool_vars, create_vars, ctx_vars,
                  cvar_vars, aux_vars >>

\* let permit = self.inner.pool.get(): blocks while the pool is empty
EncGet ==
  /\ enc_pc = "get"
  /\ enc_pool # << >>
  /\ enc_permit' = get(enc_pool)
  /\ enc_pool' = AfterGet(enc_pool)
  /\ enc_pc' = "submit"
  /\ UNCHANGED << enc_pending, enc_chan, enc_sender, enc_ret, enc_log,
                  it_pc, it_resource, enc_yielded, it_ret, enc_alive >>
  /\ UNCHANGED << dec_vars, pool_vars, create_vars, ctx_vars,
                  cvar_vars, aux_vars >>

\* a failed submission that hands its permit back
PutBackOnFailure(pool, permit) == Append(pool, permit)

\* the pool after a queue_gpu_frame that returns an error or panics: the
\* Permit is a Copy value that goes out of scope, the pool is not touched
AfterFailedSubmit(pool, permit) == pool

\* the rest of queue_gpu_frame: the copy (which may panic), the registration
\* (whose error returns with `?`), nvEncEncodePicture and the match on its
\* result.  A send on the bounded channel blocks while the channel is full.
\* a submit that keeps the resource whatever the engine answered
PushAlways(pending, resource, outcome) == Append(pending, resource)

\* Err(NV_ENC_ERR_NEED_MORE_INPUT) => self.inner.pending.push(resource);
\* Err(err) => Err(err)
pending_after(pending, resource, outcome) ==
  IF outcome = "Ok(false)" THEN Append(pending, resource) ELSE pending

EncSubmitStep(outcome) ==
  /\ enc_pc = "submit"
  /\ LET resource == MappedInputResource(enc_permit, Len(enc_log) + 1) IN
     /\ enc_log' = Append(enc_log, [permit |-> enc_permit, res |-> outcome])
     /\ enc_permit' = NoPermit
     /\ IF outcome = "Ok(true)"
          THEN IF Len(enc_chan) + Len(enc_pending) + 1 <= Surfaces
                 THEN /\ enc_chan' = enc_chan \o FlushOrder(enc_pending, resource)
                      /\ enc_pending' = << >>
                      /\ enc_pc' = "idle"
                      /\ enc_ret' = outcome
                 ELSE /\ enc_pc' = "send_blocked"
                      /\ UNCHANGED << enc_chan, enc_pending, enc_ret >>
          ELSE /\ enc_pending' = pending_after(enc_pending, resource, outcome)
               /\ enc_pc' = "idle"
               /\ enc_ret' = outcome
               /\ UNCHANGED enc_chan
     /\ enc_pool' = IF outcome \in {"Ok(true)", "Ok(false)"}
                      THEN enc_pool
                      ELSE AfterFailedSubmit(enc_pool, enc_permit)
     /\ UNCHANGED << enc_sender, it_pc, it_resource, enc_yielded, it_ret,
                     enc_alive >>
     /\ UNCHANGED << dec_vars, pool_vars, create_vars, ctx_vars, cvar_vars >>

EncSubmit(outcome) == EncSubmitStep(outcome) /\ UNCHANGED aux_vars

\* send_eos: the end-of-stream picture is submitted; on success the sender is
\* taken, on failure `?` returns before that
send_eos(engineOk) ==
  /\ enc_alive
  /\ enc_pc = "idle"
  /\ enc_sender' = IF engineOk THEN FALSE ELSE enc_sender
  /\ enc_ret' = IF engineOk THEN "Ok(())" ELSE "Err"
  /\ UNCHANGED << enc_pool, enc_pending, enc_chan, enc_pc, enc_permit, enc_log,
                  it_pc, it_resource, enc_yielded, it_ret, enc_alive >>
  /\ UNCHANGED << dec_vars, pool_vars, create_vars, ctx_vars,
                  cvar_vars, aux_vars >>

\* the Encoder goes out of scope while a FramesIter made by frames() lives
\* on: Inner's fields are dropped, so the sender and the pending resources
\* are gone and the Arc of the bitstream buffers loses its owner; the entries
\* on the channel stay, the iterator holds a receiver
EncoderDrop ==
  /\ enc_alive
  /\ enc_pc = "idle"
  /\ enc_alive' = FALSE
  /\ enc_sender' = FALSE
  /\ enc_pending' = << >>
  /\ UNCHANGED << enc_pool, enc_chan, enc_pc, enc_permit, enc_ret, enc_log,
                  it_pc, it_resource, enc_yielded, it_ret >>
  /\ UNCHANGED << dec_vars, pool_vars, create_vars, ctx_vars,
                  cvar_vars, aux_vars >>

\* FramesIter::next, the receive: self.receiver.recv().ok()? got an entry
ItRecv ==
  /\ it_pc = "idle"
  /\ enc_chan # << >>
  /\ it_resource' = Head(enc_chan)
  /\ enc_chan' = Tail(enc_chan)
  /\ enc_yielded' = Append(enc_yielded, Head(enc_chan))
  /\ it_pc' = "got"
  /\ it_ret' = "none"
  /\ UNCHANGED << enc_pool, enc_pending, enc_sender, enc_pc, enc_permit,
                  enc_ret, enc_log, enc_alive >>
  /\ UNCHANGED << dec_vars, pool_vars, create_vars, ctx_vars,
                  cvar_vars, aux_vars >>

\* FramesIter::next, the receive on an empty channel whose sender is gone:
\* recv() is Err(Disconnected) and `.ok()?` returns None
ItEnd ==
  /\ it_pc = "idle"
  /\ enc_chan = << >>
  /\ is_none(enc_sender)
  /\ it_ret' = "None"
  /\ UNCHANGED << enc_pool, enc_pending, enc_chan, enc_sender, enc_pc,
                  enc_permit, enc_ret, enc_log, it_pc, it_resource,
                  enc_yielded, enc_alive >>
  /\ UNCHANGED << dec_vars, pool_vars, create_vars, ctx_vars,
                  cvar_vars, aux_vars >>

\* results of BitStream::to_vec
ReadOutcomes == {"ok", "lock_err", "unlock_err"}

\* an upgrade that always finds the buffers
UpgradeAlways(alive) == TRUE

\* self.bitstream.upgrade(): Some while the Encoder owns the Arc
upgrade(alive) == alive

\* FramesIter::next, the rest: without the bitstream buffers `?` returns
\* None at once; otherwise the bitstream is read, a failed read becomes None,
\* and the permit goes back to the pool either way
ItPut(read) ==
  /\ it_pc = "got"
  /\ IF upgrade(enc_alive)
       THEN /\ enc_pool' = put(enc_pool, it_resource.permit)
            /\ it_ret' = IF read = "ok" THEN "Some" ELSE "None"
       ELSE /\ it_ret' = "None"
            /\ UNCHANGED enc_pool
  /\ it_resource' = NoResource
  /\ it_pc' = "idle"
  /\ UNCHANGED << enc_pending, enc_chan, enc_sender, enc_pc, enc_permit,
                  enc_ret, enc_log, enc_yielded, enc_alive >>
  /\ UNCHANGED << dec_vars, pool_vars, create_vars, ctx_vars,
                  cvar_vars, aux_vars >>

EncNext ==
  \/ EncQueueBegin
  \/ EncGet
  \/ \E outcome \in EncOutcomes : EncSubmit(outcome)
  \/ \E engineOk \in BOOLEAN : send_eos(engineOk)
  \/ ItRecv
  \/ ItEnd
  \/ \E read \in ReadOutcomes : ItPut(read)

EncSpec == Init /\ [][EncNext]_vars

\* the encoder, its iterator, and the drop of the Encoder
TeardownNext ==
  \/ EncQueueBegin
  \/ EncGet
  \/ \E outcome \in EncOutcomes : EncSubmit(outcome)
  \/ \E engineOk \in BOOLEAN : send_eos(engineOk)
  \/ EncoderDrop
  \/ ItRecv
  \/ ItEnd
  \/ \E read \in ReadOutcomes : ItPut(read)

TeardownSpec == Init /\ [][TeardownNext]_vars

(***************************************************************************)
(* ResourcePool on its own: any thread may call get, and a thread that     *)
(* holds a permit may hand it to another thread or call put with it.       *)
(***************************************************************************)
\* a thread calls get: it takes the lock and enters the loop
PoolGetCall(t) ==
  /\ pool_pc[t] = "idle"
  /\ pool_pc' = [pool_pc EXCEPT ![t] = "get"]
  /\ UNCHANGED << pool_q, pool_hold, pool_last_put >>
  /\ UNCHANGED << dec_vars, enc_vars, create_vars, ctx_vars,
                  cvar_vars, aux_vars >>

\* while pool.len() == 0 { wait }; Permit(pool.pop_front().unwrap())
PoolGetReturn(t) ==
  /\ pool_pc[t] = "get"
  /\ pool_q # << >>
  /\ pool_hold' = [pool_hold EXCEPT ![t] = get(pool_q)]
  /\ pool_q' = AfterGet(pool_q)
  /\ pool_pc' = [pool_pc EXCEPT ![t] = "hold"]
  /\ UNCHANGED pool_last_put
  /\ UNCHANGED << dec_vars, enc_vars, create_vars, ctx_vars,
                  cvar_vars, aux_vars >>

\* the permit travels to another thread (inside a resource sent on a channel)
PoolHandOver(t, u) ==
  /\ pool_pc[t] = "hold"
  /\ pool_pc[u] = "idle"
  /\ pool_hold' = [pool_hold EXCEPT ![t] = NoPermit, ![u] = pool_hold[t]]
  /\ pool_pc' = [pool_pc EXCEPT ![t] = "idle", ![u] = "hold"]
  /\ UNCHANGED << pool_q, pool_last_put >>
  /\ UNCHANGED << dec_vars, enc_vars, create_vars, ctx_vars,
                  cvar_vars, aux_vars >>

\* pool.push_back(permit.0); cvar.notify_one()
PoolPut(t) ==
  /\ pool_pc[t] = "hold"
  /\ pool_q' = put(pool_q, pool_hold[t])
  /\ pool_last_put' = [permit |-> pool_hold[t], by |-> t]
  /\ pool_hold' = [pool_hold EXCEPT ![t] = NoPermit]
  /\ pool_pc' = [pool_pc EXCEPT ![t] = "idle"]
  /\ UNCHANGED << dec_vars, enc_vars, create_vars, ctx_vars,
                  cvar_vars, aux_vars >>

PoolNext ==
  \/ \E t \in Threads : PoolGetCall(t)
  \/ \E t \in Threads : PoolGetReturn(t)
  \/ \E t \in Threads, u \in Threads : PoolHandOver(t, u)
  \/ \E t \in Threads : PoolPut(t)

PoolSpec == Init /\ [][PoolNext]_vars

(***************************************************************************)
(* Decoder::create and Encoder::create.  A create call is a straight line  *)
(* of engine calls, each followed by `?` or an early return; its input is  *)
(* whether a context was passed in and which call, if any, fails.          *)
(***************************************************************************)
\* the context is made by the call unless one was passed in
ContextCalls(given) ==
  IF given THEN << >> ELSE << "cuDeviceGet", "cuCtxCreate" >>

\* the engine calls of Decoder::create, in order
DecoderCreateCalls(given) ==
  ContextCalls(given) \o << "cuvidCtxLockCreate", "cuvidCreateVideoParser" >>

\* the engine calls and the lookups of Encoder::create, in order
EncoderCreateCalls(given, surfaces) ==
  ContextCalls(given)
    \o << "nvEncOpenEncodeSessionEx",
          "nvEncGetEncodeGUIDCount", "nvEncGetEncodeGUIDs", "find codec",
          "nvEncGetEncodePresetCount", "nvEncGetEncodePresetGUIDs",
          "nvEncGetEncodeProfileGUIDCount", "nvEncGetEncodeProfileGUIDs",
          "find profile",
          "nvEncGetInputFormatCount", "nvEncGetInputFormats", "find NV12",
          "nvEncInitializeEncoder" >>
    \o [i \in 1 .. surfaces |-> "nvEncCreateBitstreamBuffer"]

\* the handle a successful call creates
HandleOf(call) ==
  CASE call = "cuCtxCreate" -> "context"
    [] call = "cuvidCtxLockCreate" -> "ctx_lock"
    [] call = "cuvidCreateVideoParser" -> "parser"
    [] call = "nvEncOpenEncodeSessionEx" -> "session"
    [] call = "nvEncCreateBitstreamBuffer" -> "bitstream"
    [] OTHER -> "none"

\* the handles whose owner has a destructor that runs when create returns
\* early: CuContext, EncoderContext and BitStream implement Drop; the
\* CUvideoctxlock is a raw pointer in a local and in Inner, and the
\* destructor that calls cuvidCtxLockDestroy belongs to Decoder
DroppedOnReturn(kind) == kind \in {"context", "session", "bitstream"}

\* the handles created by the calls before position n
MadeBefore(calls, n, call_no) ==
  { [kind |-> HandleOf(calls[i]), call |-> call_no, i |-> i] :
      i \in {j \in 1 .. (n - 1) : HandleOf(calls[j]) # "none"} }

\* one create call: the calls before fail_at succeed, the call at fail_at
\* fails and create returns the error; fail_at = 0 is the call where nothing
\* fails
Create(what, given, calls, fail_at) ==
  /\ cr_call < MaxCreates
  /\ cr_call' = cr_call + 1
  /\ LET n == IF fail_at = 0 THEN Len(calls) + 1 ELSE fail_at
         made == MadeBefore(calls, n, cr_call + 1)
     IN  /\ cr_made' = made
         /\ cr_live' = IF fail_at = 0
                         THEN cr_live \cup made
                         ELSE cr_live
                                \cup {h \in made : ~DroppedOnReturn(h.kind)}
  /\ cr_last' = [what |-> what, given |-> given, fail_at |-> fail_at,
                 ret |-> IF fail_at = 0 THEN "Ok" ELSE "Err"]
  /\ UNCHANGED << dec_vars, enc_vars, pool_vars, ctx_vars, cvar_vars, aux_vars >>

DecoderCreate(given, fail_at) ==
  /\ fail_at \in 0 .. Len(DecoderCreateCalls(given))
  /\ Create("Decoder", given, DecoderCreateCalls(given), fail_at)

EncoderCreate(given, surfaces, fail_at) ==
  /\ fail_at \in 0 .. Len(EncoderCreateCalls(given, surfaces))
  /\ Create("Encoder", given, EncoderCreateCalls(given, surfaces), fail_at)

\* positions a failure can be at
MaxCreateCalls == Len(EncoderCreateCalls(FALSE, Surfaces))

CreateNext ==
  \/ \E given \in BOOLEAN, fail_at \in 0 .. MaxCreateCalls :
        DecoderCreate(given, fail_at)
  \/ \E given \in BOOLEAN, fail_at \in 0 .. MaxCreateCalls :
        EncoderCreate(given, Surfaces, fail_at)

CreateSpec == Init /\ [][CreateNext]_vars

(***************************************************************************)
(* The CUDA context stack.  The sequence callback, the picture-decode      *)
(* callback and map_frame run engine calls between cuCtxPushCurrent and    *)
(* cuCtxPopCurrent.  A handler is written down as the calls it makes in    *)
(* order, each with what the code does when the call fails: "return"       *)
(* leaves the handler, "pop_return" calls cuCtxPopCurrent and leaves,      *)
(* "continue" goes on.  A "check" is a test of the code that returns when  *)
(* it fails and touches no context.                                        *)
(***************************************************************************)
Step(op, name, on_fail) == [op |-> op, name |-> name, on_fail |-> on_fail]

\* what the second half of the sequence callback does with the decoder
SeqPaths == {"create", "reconfigure", "keep"}

\* handle_video_sequence
SequenceCbSteps(path) ==
  << Step("push", "cuCtxPushCurrent", "return"),
     Step("call", "cuvidGetDecoderCaps", "return"),
     Step("pop", "cuCtxPopCurrent", "return"),
     Step("check", "bIsSupported", "return"),
     Step("check", "max size", "return"),
     Step("check", "max MB count", "return"),
     Step("check", "NV12", "return"),
     Step("push", "cuCtxPushCurrent", "return") >>
  \o (CASE path = "create" ->
             << Step("call", "cuvidCreateDecoder", "return") >>
        [] path = "reconfigure" ->
             << Step("call", "cuvidReconfigureDecoder", "return") >>
        [] OTHER -> << >>)
  \o << Step("pop", "cuCtxPopCurrent", "return") >>

\* picture_decode_cb
PictureDecodeCbSteps ==
  << Step("check", "decoder is null", "return"),
     Step("check", "decoder is null after the wait", "return"),
     Step("push", "cuCtxPushCurrent", "return"),
     Step("call", "cuvidDecodePicture", "return"),
     Step("pop", "cuCtxPopCurrent", "return") >>

\* map_frame
MapFrameSteps ==
  << Step("push", "cuCtxPushCurrent", "pop_return"),
     Step("call", "cuvidMapVideoFrame64", "pop_return"),
     Step("call", "cuvidGetDecodeStatus", "continue"),
     Step("pop", "cuCtxPopCurrent", "continue") >>

\* cuCtxPopCurrent on a stack of the given depth
Popped(depth) == IF depth > 0 THEN depth - 1 ELSE depth

\* the stack after one call: a push or a pop that fails leaves it as it was
AfterStep(step, failed, depth) ==
  CASE step.op = "push" /\ ~failed -> depth + 1
    [] step.op = "pop" /\ ~failed -> Popped(depth)
    [] OTHER -> depth

\* the stack when the handler returns, started at step i: the step at
\* fail_at fails, every other succeeds
RECURSIVE RunFrom(_, _, _, _)
RunFrom(steps, i, fail_at, depth) ==
  IF i > Len(steps)
    THEN depth
    ELSE LET failed == i = fail_at
             d == AfterStep(steps[i], failed, depth)
         IN  IF failed /\ steps[i].on_fail = "return"
               THEN d
               ELSE IF failed /\ steps[i].on_fail = "pop_return"
                      THEN Popped(d)
                      ELSE RunFrom(steps, i + 1, fail_at, d)

\* handler calls in one behaviour
MaxCtxCalls == 2

\* one call of a handler on a thread; fail_at = 0 is the call where nothing
\* fails
CtxCall(handler, thread, steps, fail_at) ==
  /\ ctx_calls < MaxCtxCalls
  /\ fail_at \in 0 .. Len(steps)
  /\ ctx_calls' = ctx_calls + 1
  /\ LET after == RunFrom(steps, 1, fail_at, ctx_depth[thread])
     IN  /\ ctx_depth' = [ctx_depth EXCEPT ![thread] = after]
         /\ ctx_last' = [handler |-> handler, fail_at |-> fail_at,
                         thread |-> thread,
                         before |-> ctx_depth[thread], after |-> after]
  /\ UNCHANGED << dec_vars, enc_vars, pool_vars, create_vars, cvar_vars, aux_vars >>

SequenceCbCtx(path, fail_at) ==
  CtxCall("sequence_cb", "parser", SequenceCbSteps(path), fail_at)

PictureDecodeCbCtx(fail_at) ==
  CtxCall("picture_decode_cb", "parser", PictureDecodeCbSteps, fail_at)

MapFrameCtx(fail_at) ==
  CtxCall("map_frame", "consumer", MapFrameSteps, fail_at)

\* positions a failure can be at
MaxCtxSteps == Len(SequenceCbSteps("create"))

\* a thread may have a context of its own current when it calls in
CtxSpecInit ==
  /\ DecInit(RequestedOutputSurfaces)
  /\ EncInit
  /\ PoolInit
  /\ CreateInit
  /\ CtxInitWith({0, 1})
  /\ CvarInit /\ AuxInit

CtxNext ==
  \/ \E path \in SeqPaths, fail_at \in 0 .. MaxCtxSteps :
        SequenceCbCtx(path, fail_at)
  \/ \E fail_at \in 0 .. MaxCtxSteps : PictureDecodeCbCtx(fail_at)
  \/ \E fail_at \in 0 .. MaxCtxSteps : MapFrameCtx(fail_at)

CtxSpec == CtxSpecInit /\ [][CtxNext]_vars

\* the steps that take no bound and no format
DecSteps ==
  \/ SeqWait
  \/ SeqDestroy
  \/ \E engineOk \in BOOLEAN, popOk \in BOOLEAN : SeqCreate(engineOk, popOk)
  \/ \E pic_idx \in EngSlots : DecBegin(pic_idx)
  \/ \E engineOk \in BOOLEAN : DecSubmit(engineOk)
  \/ CbReturn
  \/ DisplayEos
  \/ \E pushOk \in BOOLEAN : ConsRecv(pushOk)
  \/ ConsGate
  \/ \E mapOk \in BOOLEAN : ConsMap(mapOk)
  \/ \E f \in held :
        \E unmapOk \in UnmapOutcomes(f, {TRUE}) : GpuFrameDrop(f, unmapOk)
  \/ DropBegin
  \/ DropFinish

\* the decoder with every engine call of the pipeline free to fail, over a
\* base format and a bit-depth change
DecNext ==
  \/ \E fmt \in PipeFormats : SeqBegin(fmt, AllOk, MaxHandles)
  \/ \E idx \in EngSlots : Display(idx, MaxDisplays)
  \/ DecSteps

Next == DecNext

Spec == Init /\ [][Next]_vars

\* every GpuFrame is released in the end, and a drop that can finish does
LiveSpec ==
  /\ Spec
  /\ WF_vars(\E f \in held, unmapOk \in BOOLEAN : GpuFrameDrop(f, unmapOk))
  /\ WF_vars(DropFinish)

\* the decoder with the unmap of a GpuFrame's drop free to fail; every other
\* engine call succeeds
UnmapNext ==
  \/ \E fmt \in PipeFormats : SeqBegin(fmt, AllOk, MaxHandles)
  \/ SeqWait
  \/ SeqDestroy
  \/ SeqCreate(TRUE, TRUE)
  \/ \E pic_idx \in EngSlots : DecBegin(pic_idx)
  \/ DecSubmit(TRUE)
  \/ CbReturn
  \/ \E idx \in EngSlots : Display(idx, MaxDisplays)
  \/ ConsRecv(TRUE)
  \/ ConsGate
  \/ ConsMap(TRUE)
  \/ \E f \in held :
        \E unmapOk \in UnmapOutcomes(f, BOOLEAN) : GpuFrameDrop(f, unmapOk)

UnmapSpec == Init /\ [][UnmapNext]_vars

\* Decoder is Sync and queue() takes &self, so a second thread can be in
\* cuvidParseVideoData too.  This is the step of a sequence callback on that
\* thread that destroys the decoder and stores null, taken while the
\* picture-decode callback of the first thread polls for its slot:
\* cuvidDestroyDecoder(self.decoder); self.decoder = null
SeqDestroyOther ==
  /\ pc_drop = "alive"
  /\ pc_cb = "dec_wait"
  /\ decoder # NULL
  /\ WaitDone(frames_in_flight)
  /\ destroyed' = destroyed \cup {decoder}
  /\ decoder' = NULL
  /\ eng_mapped' = AfterDestroy(eng_mapped, decoder)
  /\ UNCHANGED << frame_in_use, frames_in_flight, current_output_surfaces,
                  fmt_vars, chan_vars, cfg_vars, created, active_fmt,
                  eng_decoded, eng_slots, seq_done, displays, pc_cb, cb_local,
                  cb_ret, cons_vars, pc_drop >>
  /\ UNCHANGED << enc_vars, pool_vars, create_vars, ctx_vars,
                  cvar_vars, aux_vars >>

\* the decoder with a create that may fail and with a second parsing thread
\* that may destroy the decoder while a picture-decode callback polls
NullNext ==
  \/ \E fmt \in PipeFormats : SeqBegin(fmt, AllOk, MaxHandles)
  \/ SeqWait
  \/ SeqDestroy
  \/ \E engineOk \in BOOLEAN : SeqCreate(engineOk, TRUE)
  \/ \E pic_idx \in EngSlots : DecBegin(pic_idx)
  \/ \E engineOk \in BOOLEAN : DecSubmit(engineOk)
  \/ SeqDestroyOther
  \/ CbReturn
  \/ \E idx \in EngSlots : Display(idx, MaxDisplays)
  \/ ConsRecv(TRUE)
  \/ ConsGate
  \/ ConsMap(TRUE)
  \/ \E f \in held :
        \E unmapOk \in UnmapOutcomes(f, {TRUE}) : GpuFrameDrop(f, unmapOk)

NullSpec == Init /\ [][NullNext]_vars

\* map_frame finds *count >= current_output_surfaces and blocks in
\* cvar.wait(count), which releases the mutex
ConsGateBlock ==
  /\ pc_cons = "gate"
  /\ "consumer" \notin cvar_waiting
  /\ ~(frames_in_flight < current_output_surfaces)
  /\ cvar_waiting' = cvar_waiting \cup {"consumer"}
  /\ UNCHANGED << dec_vars, cvar_last >>
  /\ UNCHANGED << enc_vars, pool_vars, create_vars, ctx_vars, aux_vars >>

\* the sequence callback finds *count > 0 on the recreate path and blocks
\* in cvar.wait(count)
SeqWaitBlock ==
  /\ pc_cb = "seq_wait"
  /\ "callback" \notin cvar_waiting
  /\ ~WaitDone(frames_in_flight)
  /\ cvar_waiting' = cvar_waiting \cup {"callback"}
  /\ UNCHANGED << dec_vars, cvar_last >>
  /\ UNCHANGED << enc_vars, pool_vars, create_vars, ctx_vars, aux_vars >>

\* the decoder with one output surface and with the threads that block on
\* the condition variable of the gate; every engine call succeeds
CvarNext ==
  \/ \E fmt \in PipeFormats : SeqBegin(fmt, AllOk, MaxHandles)
  \/ SeqWait
  \/ SeqWaitBlock
  \/ SeqDestroy
  \/ SeqCreate(TRUE, TRUE)
  \/ \E pic_idx \in EngSlots : DecBegin(pic_idx)
  \/ DecSubmit(TRUE)
  \/ CbReturn
  \/ \E idx \in EngSlots : Display(idx, MaxDisplays)
  \/ ConsRecv(TRUE)
  \/ ConsGate
  \/ ConsGateBlock
  \/ ConsMap(TRUE)
  \/ \E f \in held :
        \E unmapOk \in UnmapOutcomes(f, {TRUE}) : GpuFrameDrop(f, unmapOk)

CvarSpecInit ==
  /\ DecInit({Some(1)})
  /\ EncInit
  /\ PoolInit
  /\ CreateInit
  /\ CtxInit
  /\ CvarInit /\ AuxInit

CvarSpec == CvarSpecInit /\ [][CvarNext]_vars

\* every thread that can take a step takes it in the end, and every GpuFrame
\* is released in the end; a thread in cvar.wait takes no step until it is
\* notified
CvarLiveSpec ==
  /\ CvarSpec
  /\ WF_vars(SeqWait)
  /\ WF_vars(SeqWaitBlock)
  /\ WF_vars(SeqDestroy)
  /\ WF_vars(SeqCreate(TRUE, TRUE))
  /\ WF_vars(DecSubmit(TRUE))
  /\ WF_vars(CbReturn)
  /\ WF_vars(ConsRecv(TRUE))
  /\ WF_vars(ConsGate)
  /\ WF_vars(ConsGateBlock)
  /\ WF_vars(ConsMap(TRUE))
  /\ WF_vars(\E f \in held, unmapOk \in BOOLEAN : GpuFrameDrop(f, unmapOk))

\* what cuvidGetDecodeStatus answers for a mapped picture: the call fails,
\* or it gives one of the values of cuvidDecodeStatus
DecodeStatuses ==
  {"query_failed", "Invalid", "InProgress", "Success", "Error",
   "Error_Concealed"}

\* a map that attaches nothing
AlwaysNone(status) == None

\* has_concealed_error as map_frame computes it
has_concealed_error(status) ==
  IF status # "query_failed"
    THEN IF status = "Error" THEN Some(FALSE)
         ELSE IF status = "Error_Concealed" THEN Some(TRUE)
         ELSE None
    ELSE None

\* map_frame from the gate on, where cuvidMapVideoFrame64 succeeds and
\* cuvidGetDecodeStatus answers status
ConsMapStatus(status) ==
  /\ ConsMapStep(TRUE)
  /\ map_meta' = [status |-> status, timestamp |-> cons_frame.timestamp,
                  has_concealed_error |-> has_concealed_error(status)]
  /\ UNCHANGED << bit_op, slot_decoder, enc_mapped, enc_engine >>

\* the decoder with every answer of the decode-status query; every other
\* engine call succeeds
StatusNext ==
  \/ \E fmt \in PipeFormats : SeqBegin(fmt, AllOk, MaxHandles)
  \/ SeqWait
  \/ SeqDestroy
  \/ SeqCreate(TRUE, TRUE)
  \/ \E pic_idx \in EngSlots : DecBegin(pic_idx)
  \/ DecSubmit(TRUE)
  \/ CbReturn
  \/ \E idx \in EngSlots : Display(idx, MaxDisplays)
  \/ ConsRecv(TRUE)
  \/ ConsGate
  \/ \E status \in DecodeStatuses : ConsMapStatus(status)
  \/ \E f \in held :
        \E unmapOk \in UnmapOutcomes(f, {TRUE}) : GpuFrameDrop(f, unmapOk)

StatusSpec == Init /\ [][StatusNext]_vars

\* picture_decode_cb from the end of the polling loop on, where the engine
\* takes the picture: cuvidDecodePicture(self.decoder, pic_params) decodes
\* into slot CurrPicIdx of the decoder that self.decoder names
DecSubmitBy ==
  /\ DecSubmitStep(TRUE)
  /\ slot_decoder' =
       IF decoder_is_null(decoder) THEN slot_decoder
       ELSE {p \in slot_decoder : p[1] # cb_local.pic_idx}
              \cup {<< cb_local.pic_idx, decoder >>}
  /\ UNCHANGED << bit_op, map_meta, enc_mapped, enc_engine >>

\* the decoder with a record of which decoder decoded into which slot; every
\* engine call succeeds
RecreateNext ==
  \/ \E fmt \in PipeFormats : SeqBegin(fmt, AllOk, MaxHandles)
  \/ SeqWait
  \/ SeqDestroy
  \/ SeqCreate(TRUE, TRUE)
  \/ \E pic_idx \in EngSlots : DecBegin(pic_idx)
  \/ DecSubmitBy
  \/ CbReturn
  \/ \E idx \in EngSlots : Display(idx, MaxDisplays)
  \/ ConsRecv(TRUE)
  \/ ConsGate
  \/ ConsMap(TRUE)
  \/ \E f \in held :
        \E unmapOk \in UnmapOutcomes(f, {TRUE}) : GpuFrameDrop(f, unmapOk)

RecreateSpec == Init /\ [][RecreateNext]_vars

\* bits set at once when the mask is taken alone
MaxBitsSet == 2

\* set_frame_status(idx, true), as picture_decode_cb calls it
MarkInUse(idx) ==
  /\ Cardinality(frame_in_use) < MaxBitsSet
  /\ frame_in_use' = set_frame_status(frame_in_use, idx, TRUE)
  /\ bit_op' = "mark_in_use"
  /\ UNCHANGED << map_meta, slot_decoder, enc_mapped, enc_engine >>
  /\ UNCHANGED << decoder, frames_in_flight, current_output_surfaces,
                  fmt_vars, chan_vars, cfg_vars, eng_vars, pc_cb, cb_local,
                  cb_ret, cons_vars, pc_drop >>
  /\ UNCHANGED << enc_vars, pool_vars, create_vars, ctx_vars, cvar_vars >>

\* fetch_and(!(1 << idx)), as the drop of a GpuFrame calls it
MarkFree(idx) ==
  /\ frame_in_use' = set_frame_status(frame_in_use, idx, FALSE)
  /\ bit_op' = "mark_free"
  /\ UNCHANGED << map_meta, slot_decoder, enc_mapped, enc_engine >>
  /\ UNCHANGED << decoder, frames_in_flight, current_output_surfaces,
                  fmt_vars, chan_vars, cfg_vars, eng_vars, pc_cb, cb_local,
                  cb_ret, cons_vars, pc_drop >>
  /\ UNCHANGED << enc_vars, pool_vars, create_vars, ctx_vars, cvar_vars >>

\* the bitmask alone, over every slot index
BitNext ==
  \/ \E idx \in AllBits : MarkInUse(idx)
  \/ \E idx \in AllBits : MarkFree(idx)

BitSpec == Init /\ [][BitNext]_vars

\* the decoder up to and past the end of the stream, with one output
\* surface: the display callbacks, the sentinel, and a consumer that pulls
\* with next() and with next_timeout; the map of a frame may fail
EosInit == DecInit({Some(1)}) /\ EncInit /\ PoolInit /\ CreateInit /\ CtxInit /\ CvarInit /\ AuxInit

EosNext ==
  \/ \E fmt \in PipeFormats : SeqBegin(fmt, AllOk, MaxHandles)
  \/ SeqWait
  \/ SeqDestroy
  \/ SeqCreate(TRUE, TRUE)
  \/ \E pic_idx \in EngSlots : DecBegin(pic_idx)
  \/ DecSubmit(TRUE)
  \/ CbReturn
  \/ \E idx \in EngSlots : Display(idx, MaxDisplays)
  \/ DisplayEos
  \/ ConsRecv(TRUE)
  \/ ConsGate
  \/ \E mapOk \in BOOLEAN : ConsMap(mapOk)
  \/ NextTimeout
  \/ ConsEnd
  \/ \E f \in held :
        \E unmapOk \in UnmapOutcomes(f, {TRUE}) : GpuFrameDrop(f, unmapOk)

EosSpec == EosInit /\ [][EosNext]_vars

\* the consumer keeps pulling and drops the frames it got
EosLiveSpec ==
  /\ EosSpec
  /\ WF_vars(ConsRecv(TRUE))
  /\ WF_vars(ConsGate)
  /\ WF_vars(\E mapOk \in BOOLEAN : ConsMap(mapOk))
  /\ WF_vars(ConsEnd)
  /\ WF_vars(\E f \in held, unmapOk \in BOOLEAN : GpuFrameDrop(f, unmapOk))

\* the decoder with every format and every answer of the capability query;
\* past the sequence callback every engine call succeeds
SeqNext ==
  \/ \E fmt \in Formats, env \in SeqEnvs : SeqBegin(fmt, env, MaxHandles)
  \/ SeqWait
  \/ SeqDestroy
  \/ \E engineOk \in BOOLEAN, popOk \in BOOLEAN : SeqCreate(engineOk, popOk)
  \/ \E pic_idx \in EngSlots : DecBegin(pic_idx)
  \/ DecSubmit(TRUE)
  \/ CbReturn
  \/ \E idx \in EngSlots : Display(idx, SeqMaxDisplays)
  \/ ConsRecv(TRUE)
  \/ ConsGate
  \/ ConsMap(TRUE)
  \/ \E f \in held :
        \E unmapOk \in UnmapOutcomes(f, {TRUE}) : GpuFrameDrop(f, unmapOk)
  \/ DropBegin
  \/ DropFinish

SeqInit == DecInit({None}) /\ EncInit /\ PoolInit /\ CreateInit /\ CtxInit /\ CvarInit /\ AuxInit

SeqSpec == SeqInit /\ [][SeqNext]_vars

\* the sequence callback alone, for reported minimums of 4 and 253 decode
\* surfaces and for Decoder::create with and without requested counts
SurfFormats ==
  { MkFmt(0, "YUV420", 32, 32, 4),
    MkFmt(0, "YUV420", 32, 32, 253),
    MkFmt(2, "YUV420", 32, 32, 0) }

SurfInit ==
  /\ DecInitWith({None, Some(0), Some(2)}, {None, Some(2), Some(9)})
  /\ EncInit /\ PoolInit /\ CreateInit /\ CtxInit /\ CvarInit /\ AuxInit

SurfNext ==
  \/ \E fmt \in SurfFormats : SeqBegin(fmt, AllOk, MaxHandles)
  \/ SeqWait
  \/ SeqDestroy
  \/ \E engineOk \in BOOLEAN : SeqCreate(engineOk, TRUE)
  \/ CbReturn

SurfSpec == SurfInit /\ [][SurfNext]_vars

\* the sequence callback alone, with every answer of the capability query,
\* over formats that differ in size, bit depth and reported minimum
RejectFormats ==
  { MkFmt(0, "YUV420", 32, 32, 4),
    MkFmt(0, "YUV420", 64, 32, 4),
    MkFmt(2, "YUV420", 64, 32, 253) }

RejectNext ==
  \/ \E fmt \in RejectFormats, env \in SeqEnvs : SeqBegin(fmt, env, MaxHandles)
  \/ SeqWait
  \/ SeqDestroy
  \/ \E engineOk \in BOOLEAN, popOk \in BOOLEAN : SeqCreate(engineOk, popOk)
  \/ CbReturn

RejectSpec == Init /\ [][RejectNext]_vars

\* a decoder created with output_surfaces = Some(0), whose bound on frames
\* in flight follows the reported minimum of decode surfaces; every engine
\* call succeeds
GateInit == DecInit({Some(0)}) /\ EncInit /\ PoolInit /\ CreateInit /\ CtxInit /\ CvarInit /\ AuxInit

GateNext ==
  \/ \E fmt \in GateFormats : SeqBegin(fmt, AllOk, MaxHandles)
  \/ SeqWait
  \/ SeqDestroy
  \/ SeqCreate(TRUE, TRUE)
  \/ \E pic_idx \in EngSlots : DecBegin(pic_idx)
  \/ DecSubmit(TRUE)
  \/ CbReturn
  \/ \E idx \in EngSlots : Display(idx, GateMaxDisplays)
  \/ ConsRecv(TRUE)
  \/ ConsGate
  \/ ConsMap(TRUE)
  \/ \E f \in held :
        \E unmapOk \in UnmapOutcomes(f, {TRUE}) : GpuFrameDrop(f, unmapOk)

GateSpec == GateInit /\ [][GateNext]_vars
(***************************************************************************)
(* Properties.                                                             *)
(***************************************************************************)

\* C1: on the recreate path the existing decoder is destroyed only in a
\* state where no GpuFrame is outstanding, whatever the consumer thread does
\* in the meantime: whenever the callback is about to call
\* cuvidDestroyDecoder on a live handle, no GpuFrame is held.
C1_DestroyOnlyWithoutFrames ==
  (pc_cb = "seq_destroy" /\ decoder # NULL) => held = {}

\* C2: when map_frame has incremented the count and the map call then fails,
\* map_frame returns no frame and gives the gate slot back: the step that
\* returns without a frame takes the count back down by one.
C2_FailedMapReleasesSlot ==
  [][(pc_cons = "map" /\ pc_cons' = "idle" /\ held' = held)
       => frames_in_flight' = frames_in_flight - 1]_vars

\* C3: in every reachable state 0 <= frames_in_flight <=
\* current_output_surfaces, sequence callbacks that change the bound
\* included.
C3_CountWithinBound ==
  /\ 0 <= frames_in_flight
  /\ frames_in_flight <= current_output_surfaces

\* slots of the PreparedFrames in the channel
ChannelSlots == {channel[i].index : i \in 1 .. Len(channel)}

\* the slot of the PreparedFrame map_frame is working on
ConsSlot == IF pc_cons = "idle" THEN {} ELSE {cons_frame.index}

\* every slot that holds a decoded picture on its way to the consumer, or
\* that a live GpuFrame was mapped from, has its bit set
BitHeldWhileInUse ==
  /\ \A f \in held : is_frame_in_use(frame_in_use, f.idx)
  /\ pc_drop # "done" =>
       \A i \in eng_decoded \cup ChannelSlots \cup ConsSlot :
          is_frame_in_use(frame_in_use, i)

\* picture_decode_cb marks and submits only a slot whose bit is clear
SubmitOnlyOnClearBit ==
  (pc_cb = "dec_wait" /\ pc_cb' = "ret" /\ decoder # NULL)
    => /\ ~is_frame_in_use(frame_in_use, cb_local.pic_idx)
       /\ is_frame_in_use(frame_in_use', cb_local.pic_idx)

\* a bit is cleared only by the drop of a GpuFrame mapped from that slot, or
\* by the drop of the Decoder
ClearedOnlyByRelease ==
  \A i \in frame_in_use \ frame_in_use' :
     \/ \E f \in held \ held' : f.idx = i
     \/ pc_drop' = "done"

\* C4: a slot's in-use bit is set from the moment picture_decode_cb submits
\* a decode for the slot until the consumer releases the GpuFrame mapped
\* from it, and picture_decode_cb never submits a decode for a slot whose
\* bit is set.
C4_InUseBit ==
  /\ []BitHeldWhileInUse
  /\ [][SubmitOnlyOnClearBit]_vars
  /\ [][ClearedOnlyByRelease]_vars

\* the decode callback polls for a slot that a live GpuFrame was mapped from
C4_Witness ==
  /\ pc_cb = "dec_wait"
  /\ \E f \in held : f.idx = cb_local.pic_idx

\* C5: every resource deferred to the pending queue is eventually sent to the
\* retrieval channel, by a later successful queue_gpu_frame or by send_eos:
\* once end-of-stream has been sent, nothing is left in the pending queue.
C5_NothingPendingAfterEos ==
  ~enc_sender => enc_pending = << >>

\* the sequence callback has run to its return
SeqReturned == pc_cb = "ret" /\ cb_local.kind = "seq"

\* C6: when a sequence callback arrives while a decoder exists and the new
\* format differs from the active one only in coded resolution, the decoder
\* handle on return is the handle on entry, and it was not destroyed.
C6_ResolutionChangeKeepsDecoder ==
  (/\ SeqReturned
   /\ cb_local.entry_decoder # NULL
   /\ cb_local.res_change
   /\ ~cb_local.fmt_differs
   /\ ~cb_local.self_differs
   /\ cb_local.reached \notin {"caps", "nv12", "push"})
    => /\ decoder = cb_local.entry_decoder
       /\ cb_local.entry_decoder \notin destroyed

\* a sequence callback that found a decoder whose bit depth or chroma format
\* differs from the new format's
SeqOnDifferentFormat ==
  /\ pc_cb \in {"seq_wait", "seq_destroy", "seq_create", "ret"}
  /\ cb_local.kind = "seq"
  /\ cb_local.entry_decoder # NULL
  /\ cb_local.fmt_differs

\* C7 as stated: when a sequence callback arrives while a decoder exists and
\* the bit depth or chroma format differs, the old decoder is destroyed and
\* a new handle is created, the destruction coming after the count was seen
\* at zero.
C7_AlwaysRecreated ==
  (SeqOnDifferentFormat /\ pc_cb = "ret")
    => /\ cb_local.entry_decoder \in destroyed
       /\ decoder \notin {NULL, cb_local.entry_decoder}
       /\ cb_local.zero_seen

\* C7: when a sequence callback arrives while a decoder exists and the bit
\* depth or chroma format differs, then: if the capability query, the NV12
\* check or the context push fails, the callback returns with the old
\* decoder in place; otherwise the old decoder is destroyed, after the count
\* was seen at zero under the lock, and cuvidCreateDecoder is called, which
\* leaves a new handle or, if it fails, a null one.
C7_RecreatedPastTheChecks ==
  SeqOnDifferentFormat =>
    /\ pc_cb = "seq_wait" =>
         /\ decoder = cb_local.entry_decoder
         /\ decoder \notin destroyed
    /\ pc_cb = "seq_destroy" => cb_local.zero_seen
    /\ pc_cb = "seq_create" =>
         /\ cb_local.zero_seen
         /\ cb_local.entry_decoder \in destroyed
         /\ decoder = NULL
    /\ pc_cb = "ret" =>
         /\ cb_local.reached \in {"caps", "nv12", "push", "created",
                                  "create_failed"}
         /\ cb_local.reached \in {"caps", "nv12", "push"} =>
              /\ decoder = cb_local.entry_decoder
              /\ decoder \notin destroyed
         /\ cb_local.reached \in {"created", "create_failed"} =>
              /\ cb_local.zero_seen
              /\ cb_local.entry_decoder \in destroyed
         /\ cb_local.reached = "created" =>
              /\ decoder \notin {NULL, cb_local.entry_decoder}
              /\ decoder \notin destroyed
         /\ cb_local.reached = "create_failed" => decoder = NULL

\* a bit-depth or chroma change has replaced the decoder
C7_Witness ==
  /\ SeqOnDifferentFormat
  /\ pc_cb = "ret"
  /\ cb_local.reached = "created"

\* the resources of the calls the engine accepted, in submission order
EncAccepted ==
  LET ok(i) == enc_log[i].res \in {"Ok(true)", "Ok(false)"}
      idx == {i \in 1 .. Len(enc_log) : ok(i)}
      nth[k \in 0 .. Len(enc_log)] ==
        IF k = 0 THEN << >>
        ELSE IF ok(k)
             THEN Append(nth[k - 1], MappedInputResource(enc_log[k].permit, k))
             ELSE nth[k - 1]
  IN  nth[Len(enc_log)]

PendingTimestamps ==
  (IF pc_cons = "idle" THEN << >> ELSE << cons_frame.timestamp >>)
    \o [i \in 1 .. Len(channel) |-> channel[i].timestamp]

\* C9 as stated: the frames the iterator returned are exactly the non-null
\* display callbacks in their order: the k-th frame returned is the k-th
\* frame displayed.
C9_ExactlyTheDisplays ==
  returned = [k \in 1 .. Len(returned) |-> k]

\* C9: with a single consumer the frames the iterator returned, followed by
\* those still on their way, are in display order without duplicates, and
\* are all the displayed frames but those discarded: by a display callback
\* that found the sender taken, or by a map_frame whose context push or map
\* call failed.
C9_DisplayOrderKept ==
  LET q == returned \o PendingTimestamps IN
  /\ \A i \in 1 .. Len(q) - 1 : q[i] < q[i + 1]
  /\ {q[i] : i \in 1 .. Len(q)} = (1 .. displays) \ lost
  /\ \A f \in held : \E i \in 1 .. Len(returned) : returned[i] = f.timestamp

\* the consumer got the second frame displayed; the first was discarded
C9_Witness ==
  /\ returned = << 2 >>
  /\ lost = {1}

\* C10: the drop of the Decoder destroys the decoder only once the count is
\* zero, and, every outstanding GpuFrame being released in the end, the drop
\* completes.
C10_DropCompletes ==
  /\ [](pc_drop = "done" => frames_in_flight = 0 /\ decoder = NULL)
  /\ (pc_drop = "wait") ~> (pc_drop = "done")

\* permits held outside the pool
PoolOutstanding == {pool_hold[t] : t \in {u \in Threads : pool_pc[u] = "hold"}}

\* permits inside the pool
PoolInside == {pool_q[i] : i \in 1 .. Len(pool_q)}

\* C11: for a pool of capacity C, whatever get and put calls any number of
\* threads make: at most C permits are outstanding, each permit is either in
\* the pool once or held by one thread; a get is blocked exactly while the
\* pool is empty; and a permit that is put is in the pool after the put, for
\* the next get of any caller.
C11_PoolBounded ==
  /\ [](/\ Cardinality(PoolOutstanding) <= PoolCapacity
        /\ PoolOutstanding \cap PoolInside = {}
        /\ PoolOutstanding \cup PoolInside = 0 .. (PoolCapacity - 1)
        /\ Len(pool_q) = Cardinality(PoolInside)
        /\ \A t \in Threads, u \in Threads :
             (t # u /\ pool_pc[t] = "hold" /\ pool_pc[u] = "hold")
               => pool_hold[t] # pool_hold[u]
        /\ \A t \in Threads :
             pool_pc[t] = "get" =>
               ((ENABLED PoolGetReturn(t)) <=> pool_q # << >>))
  /\ [][\A t \in Threads :
          (pool_pc[t] = "hold" /\ pool_pc'[t] = "idle" /\ pool_q' # pool_q)
            => pool_q' = Append(pool_q, pool_hold[t])]_vars
  /\ [][\A t \in Threads :
          (pool_pc[t] = "get" /\ pool_pc'[t] = "hold")
            => pool_hold'[t] = Head(pool_q)]_vars

\* a thread holds the permit another thread put last, while a third is
\* blocked in get on the empty pool
C11_Witness ==
  /\ pool_q = << >>
  /\ \E t \in Threads, u \in Threads, w \in Threads :
       /\ t # u
       /\ pool_pc[t] = "hold"
       /\ pool_hold[t] = pool_last_put.permit
       /\ pool_last_put.by = u
       /\ pool_pc[w] = "get"

\* C12 as stated: the drop of a GpuFrame unmaps its surface, takes the count
\* down by exactly one and clears the bit of its own slot and of no other.
C12_DropDoesAllThree ==
  [][\A f \in held \ held' :
       /\ f \in eng_mapped
       /\ eng_mapped' = eng_mapped \ {f}
       /\ frames_in_flight' = frames_in_flight - 1
       /\ frame_in_use' = frame_in_use \ {f.idx}]_vars

\* C12: the drop of a GpuFrame calls the unmap for its own surface and only
\* logs a failure, so the surface is unmapped or left as it was and no other
\* surface is touched; whatever the unmap answered, the count goes down by
\* exactly one and the bit of the frame's own slot is cleared, and no other
\* bit changes.
C12_DropEffects ==
  [][\A f \in held \ held' :
       /\ eng_mapped' \in {eng_mapped \ {f}, eng_mapped}
       /\ frames_in_flight' = frames_in_flight - 1
       /\ f.idx \notin frame_in_use'
       /\ frame_in_use' = frame_in_use \ {f.idx}
       /\ held' = held \ {f}]_vars

\* a GpuFrame was dropped and its unmap failed, while another slot is in use
C12_Witness ==
  \E m \in eng_mapped :
     /\ m \notin held
     /\ m.idx \notin frame_in_use
     /\ frame_in_use # {}


\* the permits in the encoder's pool
EncPoolSet == {enc_pool[i] : i \in 1 .. Len(enc_pool)}

\* the permits held for a submission, deferred in the pending queue or
\* queued on the retrieval channel
EncHeldOutside ==
  (IF enc_permit = NoPermit THEN {} ELSE {enc_permit})
    \cup {enc_pending[i].permit : i \in 1 .. Len(enc_pending)}
    \cup {enc_chan[i].permit : i \in 1 .. Len(enc_chan)}

\* C13 as stated: a permit enters the pool only in the step of the retrieval
\* iterator that holds it, and only when the bitstream of that permit was
\* locked, copied out and unlocked (to_vec was Ok, next() returns Some); a
\* permit held for submission, pending or on the channel is not in the pool.
C13_PutOnlyAfterRead ==
  /\ [](EncHeldOutside \cap EncPoolSet = {})
  /\ [][\A p \in EncPoolSet' \ EncPoolSet :
          /\ it_pc = "got"
          /\ it_resource.permit = p
          /\ it_ret' = "Some"]_vars

\* C13: a permit enters the pool only in the step of the retrieval iterator
\* that holds it, at the back of the queue and as that next() returns,
\* whether the bitstream read succeeded (Some) or failed at the lock or the
\* unlock (None); a permit held for submission, pending or on the channel is
\* not in the pool.
C13_PutOnlyByIterator ==
  /\ [](EncHeldOutside \cap EncPoolSet = {})
  /\ [][\A p \in EncPoolSet' \ EncPoolSet :
          /\ it_pc = "got"
          /\ it_resource.permit = p
          /\ enc_pool' = Append(enc_pool, p)
          /\ it_pc' = "idle"
          /\ it_ret' \in {"Some", "None"}]_vars

\* with the sender still there, next() returned None for an entry whose
\* bitstream read failed, and the permit of that entry is back in the pool
\* while another entry waits on the channel
C13_Witness ==
  /\ enc_sender
  /\ it_pc = "idle"
  /\ it_ret = "None"
  /\ enc_yielded # << >>
  /\ enc_yielded[Len(enc_yielded)].permit \in EncPoolSet
  /\ enc_chan # << >>

\* C14: once send_eos has taken the sender, no queue_gpu_frame is past its
\* first check: none holds a permit, none takes one, the log of submissions
\* does not grow; nothing is added to the retrieval channel, whose entries
\* reach the iterator in order, and a next() that ends without an entry
\* does so only when the channel is empty.
C14_NothingSubmittedAfterEos ==
  /\ [](~enc_sender => enc_pc = "idle" /\ enc_permit = NoPermit)
  /\ [][~enc_sender =>
          /\ enc_sender' = enc_sender
          /\ enc_log' = enc_log
          /\ enc_pc' = "idle"
          /\ enc_permit' = NoPermit
          /\ EncPoolSet \subseteq EncPoolSet'
          /\ enc_pending' = enc_pending
          /\ enc_yielded' \o enc_chan' = enc_yielded \o enc_chan
          /\ (it_pc = "idle" /\ it_pc' = "idle" /\ it_ret' # it_ret)
               => (enc_chan = << >> /\ it_ret' = "None")]_vars

\* after the end of the stream a queue_gpu_frame was turned away, the
\* iterator has received the two flushed entries and the channel is empty
C14_Witness ==
  /\ ~enc_sender
  /\ enc_ret = "panic"
  /\ enc_log # << >>
  /\ enc_log[Len(enc_log)].res = "Ok(true)"
  /\ Len(enc_yielded) = 2
  /\ enc_chan = << >>
  /\ it_pc = "idle"
  /\ it_ret = "None"

\* C18: once the Encoder is dropped, every next() that returns gives None,
\* with entries on the channel (the entry is received, the buffers are gone)
\* and without (the channel is disconnected); it never waits on an empty
\* channel, the sender went with the Encoder.
C18_NoneAfterDrop ==
  /\ [](~enc_alive => ~enc_sender)
  /\ [][(~enc_alive /\ it_pc' = "idle" /\ (it_pc = "got" \/ it_ret' # it_ret))
          => it_ret' = "None"]_vars

\* after the drop a next() took an entry off the channel and returned None
\* without putting the permit back; another entry is still queued
C18_Witness ==
  /\ ~enc_alive
  /\ it_pc = "idle"
  /\ it_ret = "None"
  /\ enc_yielded # << >>
  /\ enc_yielded[Len(enc_yielded)].permit \notin EncPoolSet
  /\ enc_chan # << >>


\* C15 as stated: next_timeout tells "nothing arrived in time, the channel
\* is open" from "the channel is closed and empty": once it has answered in
\* both situations, the two answers differ.
C15_Distinguishable ==
  (pull_ret["open"] # "none" /\ pull_ret["closed"] # "none")
     => pull_ret["open"] # pull_ret["closed"]

\* a display callback has just returned
DisplayReturned ==
  pc_cb = "idle" /\ pc_cb' = "ret" /\ cb_local'.kind \in {"display", "eos"}

\* C16: once the null sentinel has taken the sender, every display callback,
\* null or not, returns 1, sends nothing, leaves the sender taken and leaves
\* the decoder handle, the in-use mask and the frames-in-flight count alone.
C16_DisplayAfterEosDoesNothing ==
  [][(~sender /\ DisplayReturned) =>
        /\ cb_ret' = 1
        /\ channel' = channel
        /\ ~sender'
        /\ decoder' = decoder
        /\ frame_in_use' = frame_in_use
        /\ frames_in_flight' = frames_in_flight
        /\ current_output_surfaces' = current_output_surfaces]_vars

\* after the sentinel a picture was displayed and discarded and the callback
\* answered 1
C16_Witness ==
  /\ ~sender
  /\ pc_cb = "ret"
  /\ cb_local.kind = "display"
  /\ ~cb_local.sent
  /\ cb_ret = 1
  /\ lost # {}

\* C17 as stated, the part about the end: after the sentinel has closed the
\* channel, a consumer that keeps pulling gets past every queued frame and
\* reaches the end of the stream: the channel is empty and no pull is stuck
\* inside map_frame.
C17_EndsAfterSentinel ==
  (~sender) ~> (channel = << >> /\ pc_cons = "idle" /\ pull_ret["end"] = "None")


\* C19 as stated: when a create call returns an error, every handle the
\* call created before the failing engine call has been destroyed.
C19_NothingLeakedOnError ==
  cr_last.ret = "Err" => cr_made \cap cr_live = {}

\* C20 as stated, for the encoder: no call on the Encoder ends in a panic,
\* whatever the engine answers and whenever the call is made.
C20_NoPanic == enc_ret # "panic"


\* the first submissions of a fresh encoder were all reported successful
\* and nothing was retrieved
OnlySuccesses ==
  /\ enc_yielded = << >>
  /\ it_pc = "idle"
  /\ Len(enc_log) <= Surfaces
  /\ \A i \in 1 .. Len(enc_log) : enc_log[i].res = "Ok(true)"

\* C21: while the submissions so far were all successful, at most C of them
\* and none retrieved, a queue_gpu_frame that asks for a permit finds one
\* and its send does not block; every submission made is on the channel and
\* nothing is pending, so after C of them the channel holds exactly C.
C21_FillsWithoutBlocking ==
  OnlySuccesses =>
     /\ enc_pc # "send_blocked"
     /\ (enc_pc = "get" /\ Len(enc_log) < Surfaces) => enc_pool # << >>
     /\ enc_pending = << >>
     /\ Len(enc_chan) = Len(enc_log)
     /\ Len(enc_pool) + Len(enc_chan)
          + (IF enc_permit = NoPermit THEN 0 ELSE 1) = Surfaces

\* C successful submissions were made and none retrieved
C21_Witness ==
  /\ OnlySuccesses
  /\ Len(enc_log) = Surfaces
  /\ enc_pc = "idle"
  /\ enc_ret = "Ok(true)"
  /\ Len(enc_chan) = Surfaces
  /\ enc_pending = << >>


\* the sequence callback is returning after it created a decoder (where
\* every context pop succeeds)
SeqSucceeded ==
  /\ SeqReturned
  /\ cb_local.reached = "created"

\* C22 as stated: a successful sequence callback creates the decoder with,
\* and returns, max(reported minimum + 3, requested decode surfaces or 1),
\* and the output-surface count is 3 when none was requested.
C22_SurfaceCounts ==
  SeqSucceeded =>
     LET want == Max(cb_local.fmt.min_num_decode_surfaces + 3,
                     unwrap_or(requested_decode_surfaces, 1))
     IN  /\ cb_local.decode_surfaces = want
         /\ cb_ret = want
         /\ requested_output_surfaces = None => current_output_surfaces = 3


\* C23: a bit of the mask is set only by the decode callback of that very
\* slot, so after submissions on distinct slots from an empty mask only
\* their bits are set; a decode callback on a slot whose bit is clear has
\* nothing to wait for, whatever the other bits are, and the bit stays
\* clear until the callback goes on.
C23_FreshSlotNeverWaits ==
  /\ []((pc_cb = "dec_wait" /\ cb_local.pic_idx \notin frame_in_use)
          => PollDone(frame_in_use, cb_local.pic_idx))
  /\ [][/\ \A i \in frame_in_use' \ frame_in_use :
              pc_cb = "dec_wait" /\ cb_local.pic_idx = i
        /\ (pc_cb = "dec_wait" /\ pc_cb' = "dec_wait"
              /\ cb_local.pic_idx \notin frame_in_use)
             => cb_local.pic_idx \notin frame_in_use']_vars

\* no frame was ever handed out, so none was released; every slot of the
\* ring but one was submitted and the callback for the last one is polling
C23_Witness ==
  /\ returned = << >>
  /\ held = {}
  /\ pc_cb = "dec_wait"
  /\ cb_local.pic_idx \notin frame_in_use
  /\ frame_in_use = EngSlots \ {cb_local.pic_idx}
  /\ eng_slots >= 3


\* C24: in the sequence callback, the picture-decode callback and map_frame
\* every context push is matched by a pop on every path, early error returns
\* included: the thread's context stack is as deep after the call as before
C24_PushesMatched ==
  ctx_last.handler # "none" => ctx_last.after = ctx_last.before

\* the coordinator fields map_frame is about to read with a plain load: the
\* bound inside the gate's wait loop, the decoder handle for
\* cuvidMapVideoFrame64, cuvidGetDecodeStatus and the GpuFrame
ConsumerReads ==
  CASE pc_cons = "gate" -> {"current_output_surfaces", "decoder"}
    [] pc_cons = "map" -> {"decoder"}
    [] OTHER -> {}

\* C25: the in-use bitmask and the frames-in-flight counter are the only
\* state of the coordinator that both the callback thread and the consumer
\* thread access: no step of a callback stores to the decoder handle or to
\* the output-surface bound while map_frame on the consumer thread is on its
\* way to read that field
C25_OnlyMaskAndCountShared ==
  [][pc_cb # "idle" \/ pc_cb' # "idle" =>
       /\ decoder' # decoder => "decoder" \notin ConsumerReads
       /\ current_output_surfaces' # current_output_surfaces
            => "current_output_surfaces" \notin ConsumerReads]_vars


\* the picture-decode callback has returned because it found no decoder
ReturnedOnNull(at) ==
  pc_cb = "ret" /\ cb_local.kind = "dec" /\ cb_local.null_at = at

\* C26: picture_decode_cb returns 0 without marking the slot in use and
\* without submitting the picture to the engine, both when the decoder
\* handle is null on entry and when it has become null during the wait for
\* the slot
C26_NullDecoderReturnsZero ==
  [][/\ (pc_cb = "idle" /\ pc_cb' # "idle" /\ cb_local'.kind = "dec"
           /\ decoder = NULL)
        => /\ pc_cb' = "ret"
           /\ cb_ret' = 0
           /\ frame_in_use' = frame_in_use
           /\ eng_decoded' = eng_decoded
     /\ (pc_cb = "dec_wait" /\ pc_cb' = "ret" /\ decoder = NULL)
        => /\ cb_ret' = 0
           /\ frame_in_use' = frame_in_use
           /\ eng_decoded' = eng_decoded]_vars

C26_Witness ==
  /\ ReturnedOnNull("after_wait")
  /\ cb_ret = 0
  /\ decoder = NULL
  /\ cb_local.pic_idx \notin frame_in_use
  /\ cb_local.pic_idx \notin eng_decoded

C26_WitnessOnEntry ==
  /\ ReturnedOnNull("entry")
  /\ cb_ret = 0
  /\ decoder = NULL
  /\ cb_local.pic_idx \notin frame_in_use


\* this step enters the sequence callback
SeqEntered == pc_cb = "idle" /\ cb_local'.kind = "seq"

\* the step changes nothing the coordinator keeps about the decoder
DecoderStateKept ==
  /\ UNCHANGED << decoder, created, destroyed, active_fmt >>
  /\ UNCHANGED << fmt_vars, current_output_surfaces >>
  /\ UNCHANGED << frame_in_use, frames_in_flight >>

\* C27: when the capability query reports the codec unsupported, or the
\* coded width or height above the maximum, or the macroblock count above
\* the maximum, the sequence callback returns the reported minimum plus 3
\* and leaves the coordinator as it was: no decoder is created, destroyed or
\* reconfigured, and the stored format, sizes and output-surface bound keep
\* their values
C27_RejectedByCaps ==
  [][(SeqEntered /\ cb_local'.caps_rejected)
       => /\ pc_cb' = "ret"
          /\ cb_ret' = cb_local'.fmt.min_num_decode_surfaces
                         + ADDITIONAL_DECODE_SURFACES
          /\ DecoderStateKept]_vars

\* the part of C27 about the coordinator's state
C27_StateKept ==
  [][(SeqEntered /\ cb_local'.caps_rejected)
       => (pc_cb' = "ret" /\ DecoderStateKept)]_vars

C29_EngineErrorChangesNothing ==
  [][(enc_pc = "submit" /\ Len(enc_log') > Len(enc_log)
        /\ enc_log'[Len(enc_log')].res = "Err")
       => /\ enc_pc' = "idle"
          /\ enc_ret' = "Err"
          /\ enc_chan' = enc_chan
          /\ enc_pending' = enc_pending]_vars

C29_Witness ==
  /\ enc_pc = "idle"
  /\ enc_ret = "Err"
  /\ enc_log # << >>
  /\ enc_log[Len(enc_log)].res = "Err"
  /\ enc_pending # << >>


\* C30: every release of a GpuFrame wakes exactly one of the threads that
\* wait on the gate whenever at least one waits, and an acquire goes through
\* only when the count is below the bound
C30_ReleaseWakesOne ==
  [][/\ held' # held /\ held' \subseteq held
        => IF cvar_waiting = {}
             THEN cvar_waiting' = {}
             ELSE /\ cvar_waiting' \subseteq cvar_waiting
                  /\ Cardinality(cvar_waiting \ cvar_waiting') = 1
     /\ frames_in_flight' > frames_in_flight
        => frames_in_flight < current_output_surfaces]_vars

C30_Witness ==
  /\ cvar_last.by = "release"
  /\ Cardinality(cvar_last.before) = 2
  /\ Cardinality(cvar_waiting) = 1


\* C31: for every slot index idx below 64, marking idx in use sets bit idx
\* and marking it free clears bit idx, each leaving the other 63 bits as they
\* were; is_in_use(idx) is true exactly when bit idx is set; and marking free
\* after marking in use gives back the mask there was when the bit was clear
C31_MaskOperations ==
  \A idx \in AllBits :
    LET set == set_frame_status(frame_in_use, idx, TRUE)
        clear == set_frame_status(frame_in_use, idx, FALSE)
    IN  /\ idx \in set
        /\ set \ {idx} = frame_in_use \ {idx}
        /\ idx \notin clear
        /\ clear \ {idx} = frame_in_use \ {idx}
        /\ is_frame_in_use(frame_in_use, idx) <=> idx \in frame_in_use
        /\ idx \notin frame_in_use
             => set_frame_status(set, idx, FALSE) = frame_in_use

C31_Witness ==
  /\ bit_op = "mark_free"
  /\ frame_in_use = {0, 63}


\* C32: map_frame attaches the decode-error status to the frame and never
\* fails because of it: a hard decode error gives Some(false), a concealed
\* error gives Some(true), any other status and a failed status query give
\* None, and in each case the frame is returned
C32_StatusIsMetadata ==
  [][map_meta' # map_meta =>
       /\ map_meta'.has_concealed_error =
            (CASE map_meta'.status = "Error" -> Some(FALSE)
               [] map_meta'.status = "Error_Concealed" -> Some(TRUE)
               [] OTHER -> None)
       /\ returned' = Append(returned, map_meta'.timestamp)
       /\ \E f \in held' \ held : f.timestamp = map_meta'.timestamp]_vars

C32_Witness ==
  /\ map_meta.status = "Error"
  /\ map_meta.has_concealed_error = Some(FALSE)
  /\ Len(returned) = 2
  /\ returned[2] = map_meta.timestamp


\* C33: every Prepared Frame is mapped against the decoder that decoded it:
\* a GpuFrame's decoder is the one that decoded into the frame's slot, also
\* when a sequence callback destroyed and recreated the decoder while the
\* Prepared Frame was queued
C33_MappedOnItsDecoder ==
  \A f \in held : << f.idx, f.decoder >> \in slot_decoder


\* the permit of the entry the retrieval iterator has received and not yet
\* put back
EncHeldByIterator ==
  IF it_pc = "got" THEN {it_resource.permit} ELSE {}

\* C34: permits are conserved in the encoder: whatever was queued, ended and
\* retrieved, and whichever registration or submission failed, each of the
\* permits is in exactly one place: in the pool, held by a submission in
\* progress, pending, on the retrieval channel or held by a retrieval in
\* progress
C34_PermitsConserved ==
  /\ EncPoolSet \cup EncHeldOutside \cup EncHeldByIterator
       = 0 .. (Surfaces - 1)
  /\ Len(enc_pool) + (IF enc_permit = NoPermit THEN 0 ELSE 1)
       + Len(enc_pending) + Len(enc_chan) + Cardinality(EncHeldByIterator)
       = Surfaces


\* the slots some party still answers for: the slot of the decode or display
\* callback that is running, the slots decoded and awaiting display, the
\* slots of the PreparedFrames on the channel and of the one map_frame works
\* on, and the slots of the live GpuFrames
SlotsAccountedFor ==
  (IF pc_cb # "idle" /\ cb_local.kind = "dec" THEN {cb_local.pic_idx}
   ELSE IF pc_cb # "idle" /\ cb_local.kind = "display" THEN {cb_local.index}
   ELSE {})
    \cup eng_decoded
    \cup {channel[k].index : k \in 1 .. Len(channel)}
    \cup (IF pc_cons \in {"gate", "map"} THEN {cons_frame.index} ELSE {})
    \cup {f.idx : f \in held}

\* C35: no in-use bit is orphaned: every slot whose bit is set has a decode
\* submission in progress, a PreparedFrame that can still reach the
\* consumer, or a live GpuFrame, also after a failed decode submission, a
\* failed map or a display callback that found the channel closed
C35_NoOrphanedBit == frame_in_use \subseteq SlotsAccountedFor


\* a release has notified while the consumer was blocked in map_frame, the
\* consumer is still blocked, and the count is below the bound
ConsumerMissedRelease ==
  /\ cvar_last.by = "release"
  /\ "consumer" \in cvar_last.before
  /\ "consumer" \in cvar_waiting
  /\ frames_in_flight < current_output_surfaces

\* C36: no wakeup is lost on the condition variable of the gate: whenever a
\* release makes the count go below the bound while a consumer is blocked in
\* map_frame, that consumer proceeds in the end, also when the recreate path
\* of the sequence callback is blocked on the same condition variable
C36_NoLostWakeup == ConsumerMissedRelease ~> ("consumer" \notin cvar_waiting)


\* answers of nvEncEncodePicture that queue_gpu_frame takes as success
EngineAccepts == {"Ok(true)", "Ok(false)"}

\* the encoder with an engine that never fails and a consumer on the
\* retrieval iterator
NeedInputNext ==
  \/ EncQueueBegin
  \/ EncGet
  \/ \E outcome \in EngineAccepts : EncSubmit(outcome)
  \/ ItRecv
  \/ \E read \in ReadOutcomes : ItPut(read)

NeedInputSpec == Init /\ [][NeedInputNext]_vars

\* the producer goes on inside queue_gpu_frame whenever it can, and the
\* consumer keeps pulling from the iterator
NeedInputLiveSpec ==
  /\ NeedInputSpec
  /\ WF_vars(EncGet)
  /\ WF_vars(\E outcome \in EngineAccepts : EncSubmit(outcome))
  /\ WF_vars(ItRecv)
  /\ WF_vars(\E read \in ReadOutcomes : ItPut(read))

\* C37: with a consumer that keeps pulling from the retrieval iterator, every
\* call of queue_gpu_frame gets a permit and returns in the end, whatever the
\* engine answers, also after Surfaces or more need-more-input answers in a
\* row
C37_QueueReturns == (enc_pc = "get") ~> (enc_pc = "idle")


(***************************************************************************)
(* The engine side of the encoder: which MappedInputResources are          *)
(* registered and mapped, whether the session and the bitstream buffers    *)
(* exist, and which calls were made with a session already destroyed.      *)
(***************************************************************************)

\* the calls of Drop for MappedInputResource
ResourceDropCalls == {"nvEncUnmapInputResource", "nvEncUnregisterResource"}

\* the calls of Drop for BitStream
BitStreamDropCalls == {"nvEncDestroyBitstreamBuffer"}

\* the engine after `calls` were made with the stored session pointer
EngineCalled(engine, calls) ==
  [engine EXCEPT !.stale = IF engine.session THEN @ ELSE @ \cup calls]

\* queue_gpu_frame after pool.get() with the resources followed:
\* MappedInputResource::new registers and maps; the Ok and the need-more-input
\* arms keep the resource, the Err arm returns and drops it, a failed
\* registration or a panic in the copy never made it
EncSubmitMapped(outcome) ==
  /\ EncSubmitStep(outcome)
  /\ enc_mapped' =
       IF outcome \in EngineAccepts
         THEN enc_mapped
                \cup {MappedInputResource(enc_permit, Len(enc_log) + 1)}
         ELSE enc_mapped
  /\ UNCHANGED << bit_op, map_meta, slot_decoder, enc_engine >>

\* FramesIter::next after the receive, up to self.pool.put(...): a failed
\* upgrade returns None and drops the resource; otherwise the bitstream is
\* read and the permit is put back while `input_resource` is still a live
\* local
ItPutPermit(read) ==
  /\ it_pc = "got"
  /\ IF upgrade(enc_alive)
       THEN /\ enc_pool' = put(enc_pool, it_resource.permit)
            /\ it_ret' = IF read = "ok" THEN "Some" ELSE "None"
            /\ it_pc' = "put"
            /\ UNCHANGED << it_resource, enc_mapped, enc_engine >>
       ELSE /\ it_ret' = "None"
            /\ it_pc' = "idle"
            /\ it_resource' = NoResource
            /\ enc_mapped' = enc_mapped \ {it_resource}
            /\ enc_engine' = EngineCalled(enc_engine, ResourceDropCalls)
            /\ UNCHANGED enc_pool
  /\ UNCHANGED << enc_pending, enc_chan, enc_sender, enc_pc, enc_permit,
                  enc_ret, enc_log, enc_yielded, enc_alive >>
  /\ UNCHANGED << bit_op, map_meta, slot_decoder >>
  /\ UNCHANGED << dec_vars, pool_vars, create_vars, ctx_vars, cvar_vars >>

\* FramesIter::next returns: its locals go out of scope in reverse order,
\* the upgraded Arc of the bitstream buffers (their last owner once the
\* Encoder is gone) and then `input_resource`, whose drop unmaps and
\* unregisters
ItDropResource ==
  /\ it_pc = "put"
  /\ it_pc' = "idle"
  /\ it_resource' = NoResource
  /\ enc_mapped' = enc_mapped \ {it_resource}
  /\ enc_engine' =
       LET freed == IF enc_alive THEN enc_engine
                    ELSE [EngineCalled(enc_engine, BitStreamDropCalls)
                            EXCEPT !.bitstreams = FALSE]
       IN  EngineCalled(freed, ResourceDropCalls)
  /\ UNCHANGED << enc_pool, enc_pending, enc_chan, enc_sender, enc_pc,
                  enc_permit, enc_ret, enc_log, enc_yielded, it_ret,
                  enc_alive >>
  /\ UNCHANGED << bit_op, map_meta, slot_decoder >>
  /\ UNCHANGED << dec_vars, pool_vars, create_vars, ctx_vars, cvar_vars >>

\* the Encoder is dropped while a FramesIter lives on: the fields of Inner
\* are dropped in the order of their declaration, `encoder` (the session)
\* first, then the Arc of the bitstream buffers (destroyed here unless the
\* iterator holds an upgraded Arc), then `pending` (each resource unmapped
\* and unregistered), then the sender; the entries on the channel stay
EncoderDropInner ==
  /\ enc_alive
  /\ enc_pc = "idle"
  /\ enc_alive' = FALSE
  /\ enc_sender' = FALSE
  /\ enc_pending' = << >>
  /\ enc_mapped' =
       enc_mapped \ {enc_pending[i] : i \in 1 .. Len(enc_pending)}
  /\ enc_engine' =
       LET closed == [enc_engine EXCEPT !.session = FALSE]
           buffers == IF it_pc = "put" THEN closed
                      ELSE [EngineCalled(closed, BitStreamDropCalls)
                              EXCEPT !.bitstreams = FALSE]
       IN  IF enc_pending = << >> THEN buffers
           ELSE EngineCalled(buffers, ResourceDropCalls)
  /\ UNCHANGED << enc_pool, enc_chan, enc_pc, enc_permit, enc_ret, enc_log,
                  it_pc, it_resource, enc_yielded, it_ret >>
  /\ UNCHANGED << bit_op, map_meta, slot_decoder >>
  /\ UNCHANGED << dec_vars, pool_vars, create_vars, ctx_vars, cvar_vars >>

MapNext ==
  \/ EncQueueBegin
  \/ EncGet
  \/ \E outcome \in EncOutcomes : EncSubmitMapped(outcome)
  \/ \E engineOk \in BOOLEAN : send_eos(engineOk)
  \/ EncoderDropInner
  \/ ItRecv
  \/ ItEnd
  \/ \E read \in ReadOutcomes : ItPutPermit(read)
  \/ ItDropResource

MapSpec == Init /\ [][MapNext]_vars

\* C38: a permit is never in the pool while the MappedInputResource that was
\* submitted with it is still mapped and registered
C38_UnmappedBeforePut ==
  \A r \in enc_mapped : r.permit \notin EncPoolSet

\* C39: on teardown the session is destroyed last: no engine call is made
\* with a session already destroyed, and once the session is destroyed no
\* bitstream buffer is left and no input resource is left mapped, pending,
\* on the channel or in the hands of an iterator
C39_SessionDestroyedLast ==
  /\ enc_engine.stale = {}
  /\ ~enc_engine.session => (~enc_engine.bitstreams /\ enc_mapped = {})


\* C40: a send on the retrieval channel inside queue_gpu_frame never blocks:
\* the entries on the channel and the pending resources together never
\* exceed the capacity Surfaces of the channel, also when nothing is ever
\* retrieved
C40_SendNeverBlocks ==
  /\ Len(enc_chan) + Len(enc_pending) <= Surfaces
  /\ enc_pc # "send_blocked"

\* with no consumer, a need-more-input answer and then an Ok: the flush sent
\* the pending resource and the current one and filled the channel
C40_Witness ==
  /\ enc_yielded = << >>
  /\ it_pc = "idle"
  /\ Len(enc_log) = Surfaces
  /\ enc_log[1].res = "Ok(false)"
  /\ enc_log[Surfaces].res = "Ok(true)"
  /\ Len(enc_chan) = Surfaces
  /\ enc_pc = "idle"


====
